---------------------------- MODULE Spec2Model ----------------------------
(***************************************************************************)
(* Verification model of the trading backend (src/backend).                *)
(*                                                                         *)
(*   OrderExecutor (executor.py)  - order ledger, asyncio coroutines.      *)
(*   RiskManager   (risk.py)      - risk gate, synchronous methods.        *)
(*                                                                         *)
(* asyncio runs coroutines cooperatively on one thread: a coroutine runs   *)
(* without interruption from one `await` to the next.  Every coroutine is  *)
(* therefore one action per segment between awaits; segments of different  *)
(* tasks interleave freely.  Coroutines carry no identity of their own, so  *)
(* the suspended ones are kept as a bag of frames (position and locals).   *)
(*                                                                         *)
(* Python's None and 0 are both falsy in `if price:` / `if quantity:` /    *)
(* `if instrument`, so an absent optional argument is written 0 (numbers)  *)
(* or "" (strings).                                                        *)
(*                                                                         *)
(* order_latencies / avg_latency_ms hold wall-clock measurements that no   *)
(* code path reads back; they are not part of the state below.             *)
(***************************************************************************)
EXTENDS Integers, Sequences, FiniteSets, Bags, TLC

(***************************************************************************)
(* Bounds of the model.                                                    *)
(***************************************************************************)
\* number of concurrently running coroutines calling the executor
MaxTasks == 2
\* number of order dicts place_order may create
MaxObjs == 2
\* last reading of the wall clock (readings are 0..MaxTime)
MaxTime == 3
\* number of approved signals awaiting their fill at one time
MaxPending == 2
\* number of trades one backtest run records
MaxTrades == 3
\* number of MarketMaking on_tick calls suspended in their re-quote at once
MaxQuoteTasks == 2
\* number of ticks a Momentum strategy is fed, over all its instruments
MaxMomentumTicks == 5
\* number of candles in the data of one instrument
MaxCandles == 2

(***************************************************************************)
(* State.                                                                  *)
(***************************************************************************)
VARIABLES
    \* ---- OrderExecutor (executor.py:27-37) ----
    objs,             \* heap of order dicts created by place_order
    orders,           \* self.orders: insertion-ordered <<order_id, dict ref>>
    total_orders,     \* self.total_orders
    filled_orders,    \* self.filled_orders
    rejected_orders,  \* self.rejected_orders
    fill_rate,        \* self.fill_rate as <<filled, total>>, <<>> while unset
    inflight,         \* bag of coroutine frames suspended at an await
    last,             \* the call that returned most recently, and its result
    \* ---- RiskManager (risk.py:48-56) ----
    positions,           \* self.positions: instrument -> position dict
    r_orders,            \* self.orders: order_id -> status of the order dict
    daily_pnl,           \* self.daily_pnl
    peak_pnl,            \* self.peak_pnl
    current_drawdown,    \* self.current_drawdown as the fraction <<num, den>>
    trading_enabled,     \* self.trading_enabled
    risk_breach,         \* self.risk_breach
    risk_breach_reason,  \* self.risk_breach_reason ("" is None)
    now,                 \* datetime.now(self.timezone).time()
    rlast,               \* the RiskManager call made most recently, its result
    pending,             \* bag of approved signals on their way to a fill
    \* ---- Backtest (backtest.py:180-190) ----
    bt_positions,        \* self.positions: instrument -> position dict
    trades,              \* self.trades
    current_equity,      \* the equity of the last point of self.equity_curve
    strategy_calls,      \* the methods process_tick called on the strategy
    \* ---- MarketMakingStrategy (strategy.py:33-37, 220-223) ----
    mm_active,           \* self.active
    mm_market_data,      \* self.market_data: instrument -> tick
    mm_positions,        \* self.positions: instrument -> quantity
    active_bids,         \* self.active_bids: instrument -> tracked order
    active_asks,         \* self.active_asks: instrument -> tracked order
    last_mid_prices,     \* self.last_mid_prices: instrument -> mid price
    mm_inflight,         \* bag of on_tick frames suspended before re-quoting
    mm_last,             \* the call made most recently and the mid it used
    quoted_mid,          \* history: the mid price of the call that last
                         \* posted a quote of the instrument
    \* ---- MomentumStrategy (strategy.py:34, 435-441) ----
    mo_active,           \* self.active
    price_history,       \* self.price_history: instrument -> list of ltp
    volume_history,      \* self.volume_history: instrument -> list of volume
    strategy_positions,  \* self.strategy_positions: instrument -> quantity
    entry_prices,        \* self.entry_prices: instrument -> price
    mo_last,             \* the call made most recently and what it returned
    \* ---- Backtest data and replay (backtest.py:35-42, 185-246) ----
    bt_instruments,      \* self.instruments of each Backtest object
    bt_data,             \* self.data[instrument]: the candles
    tick_frames,         \* self.data[instrument + '_ticks']
    prepared_from,       \* history: the candles the tick frames were made of
    merged,              \* run: pd.concat(all_ticks)
    all_ticks,           \* run: all_ticks_df, the merged ticks sorted
    replayed,            \* run: the number of ticks the loop has processed
    equity_curve         \* self.equity_curve

exec_vars == <<objs, orders, total_orders, filled_orders, rejected_orders,
               fill_rate, inflight, last>>

risk_vars == <<positions, r_orders, daily_pnl, peak_pnl, current_drawdown,
               trading_enabled, risk_breach, risk_breach_reason, now, rlast,
               pending>>

book_vars == <<bt_positions, trades, current_equity, strategy_calls>>

mm_vars == <<mm_active, mm_market_data, mm_positions, active_bids,
             active_asks, last_mid_prices, mm_inflight, mm_last, quoted_mid>>

mo_vars == <<mo_active, price_history, volume_history, strategy_positions,
             entry_prices, mo_last>>

data_vars == <<bt_instruments, bt_data, tick_frames, prepared_from>>
run_vars == <<merged, all_ticks, replayed, equity_curve>>
replay_vars == <<data_vars, run_vars>>

vars == <<objs, orders, total_orders, filled_orders, rejected_orders,
          fill_rate, inflight, last,
          positions, r_orders, daily_pnl, peak_pnl, current_drawdown,
          trading_enabled, risk_breach, risk_breach_reason, now, rlast,
          pending, bt_positions, trades, current_equity, strategy_calls,
          mm_active, mm_market_data, mm_positions, active_bids, active_asks,
          last_mid_prices, mm_inflight, mm_last, quoted_mid,
          mo_active, price_history, volume_history, strategy_positions,
          entry_prices, mo_last,
          bt_instruments, bt_data, tick_frames, prepared_from,
          merged, all_ticks, replayed, equity_curve>>

(***************************************************************************)
(* OrderExecutor: helpers.                                                 *)
(***************************************************************************)
\* statuses in which modify_order / cancel_order proceed (executor.py:141)
ActiveStatuses == {"OPEN", "PENDING"}

TerminalStatuses == {"REJECTED", "COMPLETE", "CANCELLED", "ERROR"}

\* arguments of place_order the callers use
PlaceArgs ==
    { [instrument |-> "NIFTY", transaction_type |-> "BUY", quantity |-> 1,
       price |-> 2, order_type |-> "LIMIT", strategy |-> "MM"],
      [instrument |-> "INFY", transaction_type |-> "SELL", quantity |-> 2,
       price |-> 0, order_type |-> "MARKET", strategy |-> ""] }

\* (price, quantity) arguments of modify_order; 0 is "not given"
ModifyArgs == { <<3, 3>>, <<0, 0>> }

\* (instrument, strategy) filters of cancel_all_orders; "" is "not given"
FilterArgs == { <<"", "">>, <<"NIFTY", "">>, <<"", "MM">> }

\* ids a caller may pass to modify_order / cancel_order
KnownIds == 1..MaxObjs

\* order_id in self.orders
HasOrder(id) == \E i \in 1..Len(orders) : orders[i][1] = id

\* self.orders[order_id]: the dict the ledger holds under the id
Lookup(id) == orders[CHOOSE i \in 1..Len(orders) : orders[i][1] = id][2]

\* self.orders[order_id] = order_data: a new key is appended, an existing
\* key keeps its place and gets the new dict
Store(id, o) ==
    IF HasOrder(id)
    THEN [i \in 1..Len(orders) |->
            IF orders[i][1] = id THEN <<id, o>> ELSE orders[i]]
    ELSE Append(orders, <<id, o>>)

\* update_metrics: fill_rate from the counters as they are when it runs
update_metrics(filled, total) ==
    IF total > 0 THEN <<filled, total>> ELSE <<0, 1>>

\* the frame of a suspended coroutine: where it waits, the order id and
\* dict it holds, and for cancel_all_orders the snapshot, the loop position,
\* the tally and the filters
Frame(pc, id, o, snap, k, n, f_ins, f_strat) ==
    [pc |-> pc, oid |-> id, obj |-> o, snap |-> snap, k |-> k,
     cancelled |-> n, f_ins |-> f_ins, f_strat |-> f_strat]

Suspend(f) == inflight (+) SetToBag({f})
Resume(f) == inflight (-) SetToBag({f})
Suspended == BagToSet(inflight)

\* a returned call: ret is "order" (the order dict), "not_found" or
\* "invalid_state" (the two {"status": "error"} dicts) or "count" (the int
\* of cancel_all_orders); resp is the local `response` of the call
Returned(op, ret, resp, n) ==
    [op |-> op, ret |-> ret, resp |-> resp, cancelled |-> n]

(***************************************************************************)
(* OrderExecutor.place_order                                               *)
(***************************************************************************)
\* the id place_order derives for the order it is about to dispatch
NewOrderId == total_orders + 1

\* up to `await asyncio.sleep`: build order_data (PENDING), derive the id
PlaceBegin ==
    /\ BagCardinality(inflight) < MaxTasks
    /\ Len(objs) < MaxObjs
    /\ \E a \in PlaceArgs :
         LET order_data ==
                 [instrument |-> a.instrument,
                  transaction_type |-> a.transaction_type,
                  quantity |-> a.quantity,
                  order_type |-> a.order_type,
                  strategy |-> a.strategy,
                  price |-> IF a.order_type = "LIMIT" /\ a.price # 0
                            THEN a.price ELSE 0,
                  status |-> "PENDING",
                  order_id |-> NewOrderId,
                  rejection_reason |-> ""]
         IN /\ objs' = Append(objs, order_data)
            /\ inflight' = Suspend(Frame("place_wait", NewOrderId,
                                         Len(objs) + 1, <<>>, 0, 0, "", ""))
    /\ UNCHANGED <<orders, total_orders, filled_orders, rejected_orders,
                   fill_rate, last>>

\* after the await: accepted (OPEN) or rejected (REJECTED), store, count
PlaceFinish(f) ==
    /\ f.pc = "place_wait"
    /\ \E accepted \in BOOLEAN :
         /\ objs' = [objs EXCEPT
                       ![f.obj].status =
                           IF accepted THEN "OPEN" ELSE "REJECTED",
                       ![f.obj].rejection_reason =
                           IF accepted THEN "" ELSE "Insufficient funds"]
         /\ rejected_orders' =
                IF accepted THEN rejected_orders ELSE rejected_orders + 1
         /\ orders' = Store(f.oid, f.obj)
         /\ total_orders' = total_orders + 1
         /\ fill_rate' = update_metrics(filled_orders, total_orders')
         /\ last' = Returned("place", "order",
                             IF accepted THEN "success" ELSE "error", 0)
    /\ inflight' = Resume(f)
    /\ UNCHANGED filled_orders

(***************************************************************************)
(* OrderExecutor.modify_order                                              *)
(***************************************************************************)
\* EntryCheck with the status test reduced to "not COMPLETE"
EntryCheck_OnlyComplete(id) ==
    IF ~HasOrder(id) THEN "not_found"
    ELSE IF objs[Lookup(id)].status = "COMPLETE" THEN "invalid_state"
    ELSE ""

\* what modify_order / cancel_order return before touching anything
\* ("" when the call goes on)
EntryCheck(id) ==
    IF ~HasOrder(id) THEN "not_found"
    ELSE IF objs[Lookup(id)].status \notin ActiveStatuses THEN "invalid_state"
    ELSE ""

\* up to the await: existence and status checks, then the client-side
\* update of price / quantity on the ledger's dict
ModifyBegin ==
    /\ \E id \in KnownIds, a \in ModifyArgs :
         IF EntryCheck(id) # ""
         THEN /\ last' = Returned("modify", EntryCheck(id), "", 0)
              /\ UNCHANGED <<objs, inflight>>
         ELSE /\ BagCardinality(inflight) < MaxTasks
              /\ objs' = [objs EXCEPT
                    ![Lookup(id)].price = IF a[1] # 0 THEN a[1] ELSE @,
                    ![Lookup(id)].quantity = IF a[2] # 0 THEN a[2] ELSE @]
              /\ inflight' = Suspend(Frame("modify_wait", id, Lookup(id),
                                           <<>>, 0, 0, "", ""))
              /\ last' = last
    /\ UNCHANGED <<orders, total_orders, filled_orders, rejected_orders,
                   fill_rate>>

\* after the await: acknowledged, or "Order already executed" (COMPLETE)
ModifyFinish(f) ==
    /\ f.pc = "modify_wait"
    /\ \E ack \in BOOLEAN :
         /\ objs' = [objs EXCEPT
                       ![f.obj].status = IF ack THEN @ ELSE "COMPLETE"]
         /\ filled_orders' = IF ack THEN filled_orders ELSE filled_orders + 1
         /\ fill_rate' = update_metrics(filled_orders', total_orders)
         /\ last' = Returned("modify", "order",
                             IF ack THEN "success" ELSE "error", 0)
    /\ inflight' = Resume(f)
    /\ UNCHANGED <<orders, total_orders, rejected_orders>>

(***************************************************************************)
(* OrderExecutor.cancel_order                                              *)
(***************************************************************************)
CancelBegin ==
    /\ \E id \in KnownIds :
         IF EntryCheck(id) # ""
         THEN /\ last' = Returned("cancel", EntryCheck(id), "", 0)
              /\ inflight' = inflight
         ELSE /\ BagCardinality(inflight) < MaxTasks
              /\ inflight' = Suspend(Frame("cancel_wait", id, Lookup(id),
                                           <<>>, 0, 0, "", ""))
              /\ last' = last
    /\ UNCHANGED <<objs, orders, total_orders, filled_orders, rejected_orders,
                   fill_rate>>

\* the part of cancel_order after its await, on the dict `o` it holds:
\* cancelled, or "Order already executed" (COMPLETE, counted as filled)
CancelEffect(o, ack) ==
    /\ objs' = [objs EXCEPT
                  ![o].status = IF ack THEN "CANCELLED" ELSE "COMPLETE"]
    /\ filled_orders' = IF ack THEN filled_orders ELSE filled_orders + 1
    /\ fill_rate' = update_metrics(filled_orders', total_orders)

CancelFinish(f) ==
    /\ f.pc = "cancel_wait"
    /\ \E ack \in BOOLEAN :
         /\ CancelEffect(f.obj, ack)
         /\ last' = Returned("cancel", "order",
                             IF ack THEN "success" ELSE "error", 0)
    /\ inflight' = Resume(f)
    /\ UNCHANGED <<orders, total_orders, rejected_orders>>

(***************************************************************************)
(* OrderExecutor.cancel_all_orders                                         *)
(***************************************************************************)
\* the loop body's decision for entry j of the snapshot, with the heap as
\* it is at that moment: the three `continue` tests on the snapshot's dict,
\* then cancel_order's own entry check on the ledger's dict
Cancellable(heap, snap, j, f_ins, f_strat) ==
    /\ heap[snap[j][2]].status \in ActiveStatuses
    /\ f_ins = "" \/ heap[snap[j][2]].instrument = f_ins
    /\ f_strat = "" \/ heap[snap[j][2]].strategy = f_strat
    /\ heap[Lookup(snap[j][1])].status \in ActiveStatuses

\* the loop runs on without suspending over entries it skips and over
\* cancel_order calls that return at once; it suspends at the first entry
\* from `from` on whose cancel_order reaches its await (0: the loop ends)
NextCancel(heap, snap, from, f_ins, f_strat) ==
    LET C == { j \in from..Len(snap) :
                 Cancellable(heap, snap, j, f_ins, f_strat) }
    IN IF C = {} THEN 0 ELSE CHOOSE j \in C : \A i \in C : j <= i

\* what a cancel_order result adds to the tally: result.get("status") of
\* a returned order dict is the order's status, never "error"
Tally(ret) == IF ret \in {"not_found", "invalid_state"} THEN 0 ELSE 1

CancelAllBegin ==
    /\ \E flt \in FilterArgs :
         LET f_ins == flt[1]
             f_strat == flt[2]
             j == NextCancel(objs, orders, 1, f_ins, f_strat)
         IN
         IF j = 0
         THEN /\ last' = Returned("cancel_all", "count", "", 0)
              /\ inflight' = inflight
         ELSE /\ BagCardinality(inflight) < MaxTasks
              /\ inflight' = Suspend(Frame("all_wait", orders[j][1],
                                           Lookup(orders[j][1]), orders, j,
                                           0, f_ins, f_strat))
              /\ last' = last
    /\ UNCHANGED <<objs, orders, total_orders, filled_orders, rejected_orders,
                   fill_rate>>

\* the awaited cancel_order finishes, its result is tallied and the loop
\* goes on to its next suspension or to the return
CancelAllResume(f) ==
    /\ f.pc = "all_wait"
    /\ \E ack \in BOOLEAN :
         /\ CancelEffect(f.obj, ack)
         /\ LET n == f.cancelled + Tally("order")
                j == NextCancel(objs', f.snap, f.k + 1, f.f_ins, f.f_strat)
            IN IF j = 0
               THEN /\ last' = Returned("cancel_all", "count",
                                        IF ack THEN "success" ELSE "error", n)
                    /\ inflight' = Resume(f)
               ELSE /\ inflight' = Resume(f) (+) SetToBag({
                          Frame("all_wait", f.snap[j][1],
                                Lookup(f.snap[j][1]), f.snap, j, n,
                                f.f_ins, f.f_strat)})
                    /\ last' = last
    /\ UNCHANGED <<orders, total_orders, rejected_orders>>

(***************************************************************************)
(* RiskManager: configuration (the risk_params argument of __init__).      *)
(* Amounts are scaled to small integers; times are clock readings 0..;     *)
(* max_drawdown is the fraction MaxDrawdownNum / MaxDrawdownDen.           *)
(***************************************************************************)
Instruments == {"NIFTY", "INFY"}

\* risk_params["max_position_size"]: NIFTY has its own entry
max_position_size == [default |-> 3, NIFTY |-> 2]
max_daily_loss == 2
max_notional_exposure == 6
MaxDrawdownNum == 1
MaxDrawdownDen == 2
market_hours == [start |-> 1, end |-> 2]
auto_square_off_time == 2
max_open_orders == 1

\* values the callers pass
PosQuantities == {-1, 0, 2}
Prices == {1, 2}
RiskOrderIds == {1, 2}
RiskOrderStatuses == {"OPEN", "COMPLETE"}
Signals ==
    [instrument : Instruments, transaction_type : {"BUY", "SELL"},
     quantity : {1, 2}]

Abs(x) == IF x < 0 THEN -x ELSE x

(***************************************************************************)
(* RiskManager: the individual checks.                                     *)
(***************************************************************************)
check_market_hours == market_hours.start <= now /\ now <= market_hours.end

check_auto_square_off == now >= auto_square_off_time

\* self.positions.get(instrument, {}).get("quantity", 0)
PositionQuantity(ins) ==
    IF ins \in DOMAIN positions THEN positions[ins].quantity ELSE 0

\* the limit that applies: the instrument's entry, else the default
PositionLimit(ins) ==
    IF ins \in DOMAIN max_position_size
    THEN max_position_size[ins] ELSE max_position_size.default

check_position_limit(ins, quantity_change) ==
    LET current_quantity == Abs(PositionQuantity(ins))
        new_quantity == Abs(current_quantity + quantity_change)
    IN new_quantity <= PositionLimit(ins)

\* check_daily_loss_limit that tolerates one unit more of loss
check_daily_loss_limit_OffByOne == daily_pnl >= -max_daily_loss - 1

check_daily_loss_limit == daily_pnl >= -max_daily_loss

\* current_drawdown <= max_drawdown, on the fractions
check_drawdown_limit ==
    current_drawdown[1] * MaxDrawdownDen <= MaxDrawdownNum * current_drawdown[2]

RECURSIVE Exposure(_, _)
Exposure(P, S) ==
    IF S = {} THEN 0
    ELSE LET ins == CHOOSE x \in S : TRUE
         IN Abs(P[ins].quantity) * P[ins].last_price + Exposure(P, S \ {ins})

check_notional_exposure ==
    Exposure(positions, DOMAIN positions) <= max_notional_exposure

check_open_orders_limit ==
    Cardinality({ id \in DOMAIN r_orders : r_orders[id] \in ActiveStatuses })
        <= max_open_orders

(***************************************************************************)
(* RiskManager.update_pnl                                                  *)
(***************************************************************************)
\* a position takes part in the P&L only with complete data
Counted(pos) ==
    ~(pos.quantity = 0 \/ pos.avg_price = 0 \/ pos.last_price = 0)

PositionPnl(pos) == (pos.last_price - pos.avg_price) * pos.quantity

RECURSIVE TotalPnl(_, _)
TotalPnl(P, S) ==
    IF S = {} THEN 0
    ELSE LET ins == CHOOSE x \in S : TRUE
         IN (IF Counted(P[ins]) THEN PositionPnl(P[ins]) ELSE 0)
              + TotalPnl(P, S \ {ins})

\* the drawdown update_pnl stores for a peak and a total
Drawdown(peak, total) ==
    IF peak > 0 THEN <<peak - total, peak>> ELSE <<0, 1>>

\* update_pnl on the position table P: daily P&L, peak, drawdown (the
\* per-position "pnl" entry it also writes is read by nothing and left out)
update_pnl(P) ==
    LET total_pnl == TotalPnl(P, DOMAIN P)
        peak == IF total_pnl > peak_pnl THEN total_pnl ELSE peak_pnl
    IN /\ positions' = P
       /\ daily_pnl' = total_pnl
       /\ peak_pnl' = peak
       /\ current_drawdown' = Drawdown(peak, total_pnl)

\* the dict update_position creates for an instrument it has not seen
NewPosition == [quantity |-> 0, avg_price |-> 0, last_price |-> 0]

\* the position table with the entry of `ins` replaced
WithPosition(ins, pos) ==
    [i \in DOMAIN positions \cup {ins} |->
        IF i = ins THEN pos ELSE positions[i]]

\* the result of a check_all_risk_limits or validate_order call, kept
\* while the state the call read is still current
RiskCall(op, ok, reason) == [op |-> op, ok |-> ok, reason |-> reason]

\* no such result: the state has moved on since
NoResult == RiskCall("", TRUE, "")

(***************************************************************************)
(* RiskManager.update_position / update_order                              *)
(***************************************************************************)
\* update_position that takes the price for the cost of a position it
\* opens
update_position_SetsCost(ins, quantity, price) ==
    /\ LET old == IF ins \in DOMAIN positions
                  THEN positions[ins] ELSE NewPosition
       IN update_pnl(WithPosition(ins,
              [old EXCEPT !.quantity = quantity, !.last_price = price,
                          !.avg_price = IF old.quantity = 0 THEN price
                                        ELSE @]))
    /\ rlast' = NoResult
    /\ UNCHANGED <<r_orders, trading_enabled, risk_breach, risk_breach_reason,
                   now, pending>>

update_position(ins, quantity, price) ==
    /\ LET old == IF ins \in DOMAIN positions
                  THEN positions[ins] ELSE NewPosition
       IN update_pnl(WithPosition(ins,
              [old EXCEPT !.quantity = quantity, !.last_price = price]))
    /\ rlast' = NoResult
    /\ UNCHANGED <<r_orders, trading_enabled, risk_breach, risk_breach_reason,
                   now, pending>>

update_order(id, status) ==
    /\ r_orders' = [i \in DOMAIN r_orders \cup {id} |->
                      IF i = id THEN status ELSE r_orders[i]]
    /\ rlast' = NoResult
    /\ UNCHANGED <<positions, daily_pnl, peak_pnl, current_drawdown,
                   trading_enabled, risk_breach, risk_breach_reason, now,
                   pending>>

\* A position record of the PositionBook (quantity, avg_price, last_price)
\* taken over into self.positions, followed by update_pnl.
SyncPosition(ins, quantity, avg_price, price) ==
    /\ update_pnl(WithPosition(ins,
           [quantity |-> quantity, avg_price |-> avg_price,
            last_price |-> price]))
    /\ rlast' = NoResult
    /\ UNCHANGED <<r_orders, trading_enabled, risk_breach, risk_breach_reason,
                   now, pending>>

\* the wall clock moves on
Tick ==
    /\ now < MaxTime
    /\ now' = now + 1
    /\ rlast' = NoResult
    /\ UNCHANGED <<positions, r_orders, daily_pnl, peak_pnl, current_drawdown,
                   trading_enabled, risk_breach, risk_breach_reason, pending>>

(***************************************************************************)
(* RiskManager.check_all_risk_limits                                       *)
(***************************************************************************)
\* BreachReason with the drawdown check made before the daily loss check
BreachReason_DrawdownFirst ==
    IF ~check_market_hours THEN "Outside market hours"
    ELSE IF ~check_drawdown_limit THEN "Drawdown limit exceeded"
    ELSE IF ~check_daily_loss_limit THEN "Daily loss limit exceeded"
    ELSE IF ~check_notional_exposure THEN "Notional exposure limit exceeded"
    ELSE IF ~check_open_orders_limit THEN "Open orders limit exceeded"
    ELSE IF check_auto_square_off THEN "Auto square off time reached"
    ELSE ""

\* the reason of the first failing check, "" when every check passes
BreachReason ==
    IF ~check_market_hours THEN "Outside market hours"
    ELSE IF ~check_daily_loss_limit THEN "Daily loss limit exceeded"
    ELSE IF ~check_drawdown_limit THEN "Drawdown limit exceeded"
    ELSE IF ~check_notional_exposure THEN "Notional exposure limit exceeded"
    ELSE IF ~check_open_orders_limit THEN "Open orders limit exceeded"
    ELSE IF check_auto_square_off THEN "Auto square off time reached"
    ELSE ""

\* check_all_risk_limits that only ever disables trading: a passing check
\* leaves an earlier breach in place
check_all_risk_limits_Latched ==
    /\ risk_breach' = (risk_breach \/ BreachReason # "")
    /\ risk_breach_reason' = IF BreachReason # "" THEN BreachReason
                             ELSE risk_breach_reason
    /\ trading_enabled' = (trading_enabled /\ BreachReason = "")
    /\ rlast' = RiskCall("check_all_risk_limits", BreachReason = "",
                         BreachReason)
    /\ UNCHANGED <<positions, r_orders, daily_pnl, peak_pnl, current_drawdown,
                   now, pending>>

\* every check in turn; the first failing one latches the breach and
\* disables trading, a pass of all of them clears it
check_all_risk_limits ==
    /\ risk_breach' = (BreachReason # "")
    /\ risk_breach_reason' = BreachReason
    /\ trading_enabled' = (BreachReason = "")
    /\ rlast' = RiskCall("check_all_risk_limits", BreachReason = "",
                         BreachReason)
    /\ UNCHANGED <<positions, r_orders, daily_pnl, peak_pnl, current_drawdown,
                   now, pending>>

(***************************************************************************)
(* RiskManager.validate_order and the validate-then-place sequence         *)
(***************************************************************************)
\* quantity_change of a signal: its signed quantity
QuantityChange(sig) ==
    IF sig.transaction_type = "BUY" THEN sig.quantity ELSE -sig.quantity

\* ValidateResult with the position limit looked at before the trading flag
ValidateResult_LimitFirst(sig) ==
    IF ~check_position_limit(sig.instrument, QuantityChange(sig))
    THEN <<FALSE, "Position limit exceeded", sig.instrument>>
    ELSE IF ~trading_enabled
    THEN <<FALSE, "Trading disabled", risk_breach_reason>>
    ELSE <<TRUE, "Order validated", "">>

\* the (is_valid, reason) pair validate_order returns; the third entry is
\* what the reason text names: the latched breach reason or the instrument
ValidateResult(sig) ==
    IF ~trading_enabled
    THEN <<FALSE, "Trading disabled", risk_breach_reason>>
    ELSE IF ~check_position_limit(sig.instrument, QuantityChange(sig))
    THEN <<FALSE, "Position limit exceeded", sig.instrument>>
    ELSE <<TRUE, "Order validated", "">>

\* validate_order on a signal; an approved signal goes on to place_order,
\* which suspends on the execution collaborator
validate_order(sig) ==
    /\ LET r == ValidateResult(sig)
       IN /\ rlast' = [op |-> "validate_order", ok |-> r[1], reason |-> r[2],
                       names |-> r[3], signal |-> sig]
          /\ pending' = IF r[1] /\ BagCardinality(pending) < MaxPending
                        THEN pending (+) SetToBag({sig}) ELSE pending
    /\ UNCHANGED <<positions, r_orders, daily_pnl, peak_pnl, current_drawdown,
                   trading_enabled, risk_breach, risk_breach_reason, now>>

\* The fill of an approved signal reaches the position table: the
\* instrument's position moves by the signed quantity (data flow
\* validate -> place -> position update).
ApplyFill(sig, price) ==
    /\ sig \in BagToSet(pending)
    /\ LET old == IF sig.instrument \in DOMAIN positions
                  THEN positions[sig.instrument] ELSE NewPosition
       IN update_pnl(WithPosition(sig.instrument,
              [old EXCEPT !.quantity = @ + QuantityChange(sig),
                          !.last_price = price]))
    /\ pending' = pending (-) SetToBag({sig})
    /\ rlast' = NoResult
    /\ UNCHANGED <<r_orders, trading_enabled, risk_breach, risk_breach_reason,
                   now>>

(***************************************************************************)
(* Backtest: the position book and the equity curve.  Prices and money are *)
(* whole numbers of half currency units (2345.50 is 4691); avg_price and   *)
(* realized_pnl are quotients and are kept as exact fractions              *)
(* <<numerator, denominator>> in lowest terms, denominator positive.      *)
(***************************************************************************)
\* initial_capital of run: 100000, in half units
initial_capital == 200000
\* price of the signals: 2345.50 and 2350.00
SignalPrices == {4691, 4700}
\* ltp of the ticks: the same, and 0 as read from a data row
TickPrices == SignalPrices \cup {0}
\* quantity of the signals
TradeQuantities == {5, 10}
\* the signals a strategy hands to execute_signal: LIMIT signals that
\* carry their price
StrategySignals ==
    [instrument : Instruments, action : {"BUY", "SELL"},
     quantity : TradeQuantities, price : SignalPrices]
\* the list generate_signals returns on one tick
SignalLists == {<<>>} \cup { <<sig>> : sig \in StrategySignals }
\* signals that lack their instrument, their action or their quantity
MalformedSignals ==
    { [action |-> "BUY", quantity |-> 5, price |-> 4691],
      [instrument |-> "NIFTY", quantity |-> 5, price |-> 4691],
      [instrument |-> "NIFTY", action |-> "BUY", price |-> 4691] }
\* signals with a quantity of 0 or below
NonPositiveSignals ==
    [instrument : {"NIFTY"}, action : {"BUY", "SELL"}, quantity : {-5, 0},
     price : {4700}]
\* the lists of a strategy that also hands over such signals
IntakeSignalLists ==
    { <<sig>> : sig \in MalformedSignals \cup NonPositiveSignals
                          \cup { g \in StrategySignals :
                                    g.instrument = "NIFTY" /\ g.quantity = 10 } }

RECURSIVE GCD(_, _)
GCD(a, b) == IF b = 0 THEN a ELSE GCD(b, a % b)

\* the quotient n / d
Frac(n, d) ==
    LET s == IF d < 0 THEN -1 ELSE 1
        g == GCD(Abs(n), Abs(d))
    IN  <<(s * n) \div g, (s * d) \div g>>

\* the sum x + y, over the least common denominator
FracAdd(x, y) ==
    LET g == GCD(x[2], y[2])
    IN  Frac(x[1] * (y[2] \div g) + y[1] * (x[2] \div g),
             (x[2] \div g) * y[2])
\* the fraction x times the integer k
FracTimes(x, k) == Frac(x[1] * k, x[2])
Min(a, b) == IF a < b THEN a ELSE b

\* the position dict update_position creates for a new instrument
NewBookPosition(price) ==
    [quantity |-> 0, avg_price |-> <<0, 1>>, current_price |-> price,
     realized_pnl |-> <<0, 1>>]

\* avg_price after a BUY: the mean of old and new taken without weights
BuyAvgPrice_Unweighted(position, quantity, price) ==
    IF position.quantity + quantity # 0
    THEN Frac(position.avg_price[1] + price * position.avg_price[2],
              2 * position.avg_price[2])
    ELSE position.avg_price

\* avg_price after a BUY:
\* (quantity * avg_price + trade_value) / (quantity + trade quantity)
BuyAvgPrice(position, quantity, price) ==
    IF position.quantity + quantity # 0
    THEN Frac(position.quantity * position.avg_price[1]
                  + quantity * price * position.avg_price[2],
              (position.quantity + quantity) * position.avg_price[2])
    ELSE position.avg_price

\* realized_pnl after a SELL with the sign of the price difference turned
SellRealizedPnl_Reversed(position, quantity, price) ==
    IF position.quantity > 0
    THEN FracAdd(position.realized_pnl,
                 FracTimes(FracAdd(position.avg_price, <<-price, 1>>),
                           Min(quantity, position.quantity)))
    ELSE position.realized_pnl

\* realized_pnl after a SELL: a long position realizes
\* (price - avg_price) * min(quantity, position quantity)
SellRealizedPnl(position, quantity, price) ==
    IF position.quantity > 0
    THEN FracAdd(position.realized_pnl,
                 FracTimes(FracAdd(<<price, 1>>,
                                   FracTimes(position.avg_price, -1)),
                           Min(quantity, position.quantity)))
    ELSE position.realized_pnl

\* avg_price after a SELL that never restarts the cost basis
SellAvgPrice_Kept(position, quantity, price) == position.avg_price

\* avg_price after a SELL: a long position that flips to short restarts
\* at the trade price
SellAvgPrice(position, quantity, price) ==
    IF position.quantity - quantity < 0 /\ position.quantity > 0
    THEN <<price, 1>>
    ELSE position.avg_price

\* quantity after a trade, with a SELL stopping at a flat position
TradeQuantity_Floored(position, action, quantity) ==
    IF action = "BUY" THEN position.quantity + quantity
    ELSE IF action = "SELL"
         THEN IF position.quantity - quantity < 0 /\ position.quantity >= 0
              THEN 0 ELSE position.quantity - quantity
    ELSE position.quantity

\* quantity after a trade
TradeQuantity(position, action, quantity) ==
    IF action = "BUY" THEN position.quantity + quantity
    ELSE IF action = "SELL" THEN position.quantity - quantity
    ELSE position.quantity

\* Backtest.update_position: the positions dict P after the trade
Backtest_update_position(P, trade) ==
    LET instrument == trade.instrument
        position == IF instrument \in DOMAIN P THEN P[instrument]
                    ELSE NewBookPosition(trade.price)
        after ==
            [quantity |-> TradeQuantity(position, trade.action,
                                        trade.quantity),
             avg_price |->
                 IF trade.action = "BUY"
                 THEN BuyAvgPrice(position, trade.quantity, trade.price)
                 ELSE IF trade.action = "SELL"
                 THEN SellAvgPrice(position, trade.quantity, trade.price)
                 ELSE position.avg_price,
             realized_pnl |->
                 IF trade.action = "SELL"
                 THEN SellRealizedPnl(position, trade.quantity, trade.price)
                 ELSE position.realized_pnl,
             current_price |-> trade.price]
    IN  [ins \in DOMAIN P \cup {instrument} |->
            IF ins = instrument THEN after ELSE P[ins]]

\* Python's None where the model has a string
NoneName == "None"

\* the trade execute_signal makes of a signal: signal.get gives None for
\* an instrument or action the signal lacks and 0 for a quantity it lacks
TradeOf(signal) ==
    [instrument |-> IF "instrument" \in DOMAIN signal THEN signal.instrument
                    ELSE NoneName,
     action |-> IF "action" \in DOMAIN signal THEN signal.action
                ELSE NoneName,
     quantity |-> IF "quantity" \in DOMAIN signal THEN signal.quantity
                  ELSE 0,
     price |-> signal.price]

\* process_strategy_signals: execute_signal on each signal in turn; a
\* signal with a price is traded at it
RECURSIVE process_strategy_signals(_, _)
process_strategy_signals(P, signals) ==
    IF signals = <<>> THEN P
    ELSE process_strategy_signals(
             Backtest_update_position(P, TradeOf(Head(signals))),
             Tail(signals))

\* unrealized P&L of a position, counted for long positions only
Unrealized_LongOnly(position) ==
    IF position.quantity > 0 /\ position.avg_price[1] # 0
       /\ position.current_price # 0
    THEN FracTimes(FracAdd(<<position.current_price, 1>>,
                           FracTimes(position.avg_price, -1)),
                   position.quantity)
    ELSE <<0, 1>>

\* the unrealized P&L calculate_equity adds for a position
Unrealized(position) ==
    IF position.quantity # 0 /\ position.avg_price[1] # 0
       /\ position.current_price # 0
    THEN FracTimes(FracAdd(<<position.current_price, 1>>,
                           FracTimes(position.avg_price, -1)),
                   position.quantity)
    ELSE <<0, 1>>

RECURSIVE EquityOver(_, _)
EquityOver(P, S) ==
    IF S = {} THEN <<0, 1>>
    ELSE LET ins == CHOOSE i \in S : TRUE
         IN  FracAdd(FracAdd(P[ins].realized_pnl, Unrealized(P[ins])),
                     EquityOver(P, S \ {ins}))

\* Backtest.calculate_equity over the positions dict P
calculate_equity(P) == FracAdd(<<initial_capital, 1>>, EquityOver(P, DOMAIN P))

\* one turn of the tick loop of run: process_tick (the signals of the
\* strategy are executed, then the tick's instrument is marked at ltp)
\* followed by a new point of the equity curve
process_tick(instrument, ltp, signals) ==
    /\ Len(trades) + Len(signals) <= MaxTrades
    /\ LET executed == process_strategy_signals(bt_positions, signals)
           marked == [ins \in DOMAIN executed |->
                        IF ins = instrument
                        THEN [executed[ins] EXCEPT !.current_price = ltp]
                        ELSE executed[ins]]
       IN  /\ bt_positions' = marked
           /\ current_equity' = calculate_equity(marked)
    /\ trades' = trades \o [i \in 1..Len(signals) |-> TradeOf(signals[i])]
    /\ strategy_calls' = <<"generate_signals">>

\* calculate_performance_metrics: the win rate over self.trades, a trade
\* counting as won when its 'pnl' entry is above 0 (0 without the entry)
win_rate ==
    LET pnl(trade) == IF "pnl" \in DOMAIN trade THEN trade.pnl ELSE <<0, 1>>
        winning_trades ==
            Cardinality({ k \in 1..Len(trades) : pnl(trades[k])[1] > 0 })
    IN  IF Len(trades) > 0 THEN Frac(winning_trades, Len(trades))
        ELSE <<0, 1>>

(***************************************************************************)
(* MarketMakingStrategy.  Prices are exact fractions of the currency unit. *)
(***************************************************************************)
\* self.instruments of the market making strategy
MMInstruments == {"NIFTY"}
\* strategy_params
spread_percentage == <<1, 2000>>
order_quantity == 2
position_limit == 4
min_price_increment == <<1, 20>>
cancel_replace_threshold == <<1, 50>>

\* the ticks fed to the strategy: mids 250, 253 and 256 from bid and ask,
\* and a tick without bid and ask whose ltp is 22428.35
MMTicks ==
    { [instrument |-> "NIFTY", bid |-> <<249, 1>>, ask |-> <<251, 1>>,
       ltp |-> <<250, 1>>],
      [instrument |-> "NIFTY", bid |-> <<252, 1>>, ask |-> <<254, 1>>,
       ltp |-> <<253, 1>>],
      [instrument |-> "NIFTY", bid |-> <<255, 1>>, ask |-> <<257, 1>>,
       ltp |-> <<256, 1>>],
      [instrument |-> "NIFTY", bid |-> <<0, 1>>, ask |-> <<0, 1>>,
       ltp |-> <<448567, 20>>] }
\* the quantities of the position data the broker reports
MMQuantities == {-3, 0, 3, 4}

\* None, for a tracked order and for a mid price never stored
None == <<>>

\* the product x * y
FracMul(x, y) ==
    LET g1 == GCD(Abs(x[1]), y[2])
        g2 == GCD(Abs(y[1]), x[2])
    IN  IF x[1] = 0 \/ y[1] = 0 THEN <<0, 1>>
        ELSE Frac((x[1] \div g1) * (y[1] \div g2),
                  (x[2] \div g2) * (y[2] \div g1))
\* the quotient x / y of fractions, y not 0
FracDiv(x, y) ==
    FracMul(x, IF y[1] < 0 THEN <<-y[2], -y[1]>> ELSE <<y[2], y[1]>>)
FracNeg(x) == <<-x[1], x[2]>>
FracAbs(x) == <<Abs(x[1]), x[2]>>
\* x > y
FracGreater(x, y) == FracAdd(x, FracNeg(y))[1] > 0

\* Python's round() of the fraction x to an integer: to the nearest, an
\* exact half to the even neighbour
Round(x) ==
    LET q == x[1] \div x[2]
        r == x[1] % x[2]
    IN  IF 2 * r < x[2] THEN q
        ELSE IF 2 * r > x[2] THEN q + 1
        ELSE IF q % 2 = 0 THEN q ELSE q + 1

\* mid price of a tick: (bid + ask) / 2 if both are there, else ltp
MidPrice(tick) ==
    IF tick.bid # <<0, 1>> /\ tick.ask # <<0, 1>>
    THEN FracMul(FracAdd(tick.bid, tick.ask), <<1, 2>>)
    ELSE tick.ltp

calculate_bid_price(mid_price) ==
    LET spread == FracMul(mid_price, spread_percentage)
        price == FracAdd(mid_price, FracNeg(spread))
    IN  FracMul(<<Round(FracDiv(price, min_price_increment)), 1>>,
                min_price_increment)

calculate_ask_price(mid_price) ==
    LET spread == FracMul(mid_price, spread_percentage)
        price == FracAdd(mid_price, spread)
    IN  FracMul(<<Round(FracDiv(price, min_price_increment)), 1>>,
                min_price_increment)

\* self.positions.get(instrument, {"quantity": 0}).get("quantity", 0)
MMPosition(ins) ==
    IF ins \in DOMAIN mm_positions THEN mm_positions[ins] ELSE 0

\* d.get(instrument) of one of the per-instrument dicts
Get(d, ins) == IF ins \in DOMAIN d THEN d[ins] ELSE None

\* d[instrument] = value
Put(d, ins, value) ==
    [i \in DOMAIN d \cup {ins} |-> IF i = ins THEN value ELSE d[i]]

\* the record of a call and the mid price it worked with
MMCall(op, ins, mid_price) ==
    [op |-> op, instrument |-> ins, mid_price |-> mid_price]

\* cancel_instrument_orders on a dict of tracked orders
Cancelled(d, ins) == IF Get(d, ins) # None THEN Put(d, ins, None) ELSE d

\* Strategy.start
MM_start ==
    /\ ~mm_active
    /\ mm_active' = TRUE
    /\ mm_last' = MMCall("start", "", None)
    /\ UNCHANGED <<mm_market_data, mm_positions, active_bids, active_asks,
                   last_mid_prices, mm_inflight, quoted_mid>>

\* Strategy.stop and on_stop: cancel_all_orders runs over self.instruments
MM_stop ==
    /\ mm_active
    /\ mm_active' = FALSE
    /\ active_bids' = [ins \in DOMAIN active_bids |->
                          IF ins \in MMInstruments THEN None
                          ELSE active_bids[ins]]
    /\ active_asks' = [ins \in DOMAIN active_asks |->
                          IF ins \in MMInstruments THEN None
                          ELSE active_asks[ins]]
    /\ mm_last' = MMCall("stop", "", None)
    /\ UNCHANGED <<mm_market_data, mm_positions, last_mid_prices,
                   mm_inflight, quoted_mid>>

\* Strategy.update_position
MM_update_position(ins, quantity) ==
    /\ ins \in MMInstruments
    /\ mm_positions' = Put(mm_positions, ins, quantity)
    /\ mm_last' = MMCall("update_position", ins, None)
    /\ UNCHANGED <<mm_active, mm_market_data, active_bids, active_asks,
                   last_mid_prices, mm_inflight, quoted_mid>>

\* price_change_pct > cancel_replace_threshold
MovedBeyondThreshold(mid_price, last_mid) ==
    /\ last_mid # None
    /\ last_mid # <<0, 1>>
    /\ FracGreater(FracDiv(FracAbs(FracAdd(mid_price, FracNeg(last_mid))),
                           last_mid),
                   cancel_replace_threshold)

\* Strategy.update_market_data and on_tick up to its await of the delay:
\* the mid is stored, and after a move beyond the threshold the quotes of
\* the instrument are cancelled and the call suspends before re-quoting
MM_on_tick(tick) ==
    LET ins == tick.instrument
        mid_price == MidPrice(tick)
        moved == MovedBeyondThreshold(mid_price, Get(last_mid_prices, ins))
    IN  /\ mm_active
        /\ ins \in MMInstruments
        /\ moved => BagCardinality(mm_inflight) < MaxQuoteTasks
        /\ mm_market_data' = Put(mm_market_data, ins, tick)
        /\ last_mid_prices' = Put(last_mid_prices, ins, mid_price)
        /\ active_bids' = IF moved THEN Cancelled(active_bids, ins)
                          ELSE active_bids
        /\ active_asks' = IF moved THEN Cancelled(active_asks, ins)
                          ELSE active_asks
        /\ mm_inflight' =
              IF moved
              THEN mm_inflight
                     (+) SetToBag({[instrument |-> ins,
                                    mid_price |-> mid_price]})
              ELSE mm_inflight
        /\ mm_last' = MMCall("on_tick", ins, mid_price)
        /\ UNCHANGED <<mm_active, mm_positions, quoted_mid>>

\* the rest of on_tick, after the delay: create_market_making_orders with
\* the mid price of the tick
MM_on_tick_resume(f) ==
    LET ins == f.instrument
        position == MMPosition(ins)
        post_bid == position < position_limit
        post_ask == Abs(position) < position_limit
    IN  /\ f \in BagToSet(mm_inflight)
        /\ mm_inflight' = mm_inflight (-) SetToBag({f})
        /\ active_bids' = IF post_bid
                          THEN Put(active_bids, ins,
                                   calculate_bid_price(f.mid_price))
                          ELSE active_bids
        /\ active_asks' = IF post_ask
                          THEN Put(active_asks, ins,
                                   calculate_ask_price(f.mid_price))
                          ELSE active_asks
        /\ quoted_mid' = IF post_bid \/ post_ask
                         THEN Put(quoted_mid, ins, f.mid_price)
                         ELSE quoted_mid
        /\ mm_last' = MMCall("create_market_making_orders", ins, f.mid_price)
        /\ UNCHANGED <<mm_active, mm_market_data, mm_positions,
                       last_mid_prices>>

\* MarketMakingStrategy.generate_signals for one instrument of market_data
MMSignals(ins) ==
    LET position == MMPosition(ins)
        mid_price == MidPrice(mm_market_data[ins])
    IN  (IF Get(active_bids, ins) = None /\ position < position_limit
         THEN << [instrument |-> ins, action |-> "BUY",
                  price |-> calculate_bid_price(mid_price),
                  quantity |-> order_quantity] >>
         ELSE <<>>)
        \o
        (IF Get(active_asks, ins) = None /\ Abs(position) < position_limit
         THEN << [instrument |-> ins, action |-> "SELL",
                  price |-> calculate_ask_price(mid_price),
                  quantity |-> order_quantity] >>
         ELSE <<>>)

\* StrategyManager.run_strategies for the strategy: generate_signals, then
\* execute_signals, which tracks the order of each signal
MM_run_strategies ==
    /\ mm_active
    /\ \E ins \in DOMAIN mm_market_data :
         LET signals == MMSignals(ins)
             has(action) == \E i \in 1..Len(signals) :
                               signals[i].action = action
             priced(action) ==
                 signals[CHOOSE i \in 1..Len(signals) :
                            signals[i].action = action].price
         IN  /\ active_bids' = IF has("BUY")
                               THEN Put(active_bids, ins, priced("BUY"))
                               ELSE active_bids
             /\ active_asks' = IF has("SELL")
                               THEN Put(active_asks, ins, priced("SELL"))
                               ELSE active_asks
             /\ quoted_mid' = IF signals # <<>>
                              THEN Put(quoted_mid, ins,
                                       MidPrice(mm_market_data[ins]))
                              ELSE quoted_mid
             /\ mm_last' = MMCall("run_strategies", ins,
                                  MidPrice(mm_market_data[ins]))
    /\ UNCHANGED <<mm_active, mm_market_data, mm_positions, last_mid_prices,
                   mm_inflight>>

(***************************************************************************)
(* MomentumStrategy.                                                       *)
(***************************************************************************)
\* self.instruments of the momentum strategy, in list order
MomentumInstruments == <<"NIFTY", "INFY">>
\* strategy_params
ma_short_period == 2
ma_long_period == 3
volume_threshold == <<3, 2>>
position_size == 2
take_profit_pct == <<1, 200>>
stop_loss_pct == <<1, 100>>
\* the buffer on_tick adds to the longer period
HistoryBuffer == 10
max_history ==
    (IF ma_short_period > ma_long_period THEN ma_short_period
     ELSE ma_long_period) + HistoryBuffer

\* the ticks fed to the strategy: ltp around 200 on a volume of 1, and
\* 200 on a volume of 4
MomentumTicks ==
    { [instrument |-> "NIFTY", ltp |-> p, volume |-> 1] : p \in 198..202 }
    \cup { [instrument |-> "NIFTY", ltp |-> 200, volume |-> 4] }
    \cup { [instrument |-> "INFY", ltp |-> p, volume |-> 1] : p \in {199, 200} }
    \cup { [instrument |-> "INFY", ltp |-> 200, volume |-> 4] }
\* the ticks of a long replay of one instrument
HistoryTicks ==
    { [instrument |-> "NIFTY", ltp |-> 199, volume |-> 1],
      [instrument |-> "NIFTY", ltp |-> 200, volume |-> 4] }

\* list[-n:]
LastN(list, n) ==
    IF Len(list) <= n THEN list ELSE SubSeq(list, Len(list) - n + 1, Len(list))

RECURSIVE SumSeq(_)
SumSeq(list) == IF list = <<>> THEN 0 ELSE Head(list) + SumSeq(Tail(list))

\* np.mean of a non-empty list
Mean(list) == Frac(SumSeq(list), Len(list))

\* calculate_momentum_signal that takes equal averages for an up-trend
calculate_momentum_signal_OrEqual(ins) ==
    LET ma_short == Mean(LastN(price_history[ins], ma_short_period))
        ma_long == Mean(LastN(price_history[ins], ma_long_period))
        avg_volume == Mean(LastN(volume_history[ins], ma_short_period))
        current_volume == volume_history[ins][Len(volume_history[ins])]
        confirmed == FracGreater(<<current_volume, 1>>,
                                 FracMul(avg_volume, volume_threshold))
    IN  IF ~FracGreater(ma_long, ma_short) /\ confirmed THEN "BUY"
        ELSE IF FracGreater(ma_long, ma_short) /\ confirmed THEN "SELL"
        ELSE "NEUTRAL"

calculate_momentum_signal(ins) ==
    LET ma_short == Mean(LastN(price_history[ins], ma_short_period))
        ma_long == Mean(LastN(price_history[ins], ma_long_period))
        avg_volume == Mean(LastN(volume_history[ins], ma_short_period))
        current_volume == volume_history[ins][Len(volume_history[ins])]
        confirmed == FracGreater(<<current_volume, 1>>,
                                 FracMul(avg_volume, volume_threshold))
    IN  IF FracGreater(ma_short, ma_long) /\ confirmed THEN "BUY"
        ELSE IF FracGreater(ma_long, ma_short) /\ confirmed THEN "SELL"
        ELSE "NEUTRAL"

\* the record of a call: its tick or the signals it returned, the
\* momentum signal it computed per instrument, whether it closed the
\* position, and the exception it raised
MomentumCall(op, tick, signals, momentum, closed, raised) ==
    [op |-> op, tick |-> tick, signals |-> signals, momentum |-> momentum,
     closed |-> closed, raised |-> raised]

\* Strategy.start
Momentum_start ==
    /\ ~mo_active
    /\ mo_active' = TRUE
    /\ mo_last' = MomentumCall("start", <<>>, <<>>, <<>>, FALSE, "")
    /\ UNCHANGED <<price_history, volume_history, strategy_positions,
                   entry_prices>>

\* Strategy.stop and on_stop: close_all_positions
Momentum_stop ==
    /\ mo_active
    /\ mo_active' = FALSE
    /\ strategy_positions' = [ins \in DOMAIN strategy_positions |-> 0]
    /\ entry_prices' =
          [ins \in { i \in DOMAIN entry_prices :
                        i \in DOMAIN strategy_positions
                            => strategy_positions[i] = 0 }
             |-> entry_prices[ins]]
    /\ mo_last' = MomentumCall("stop", <<>>, <<>>, <<>>, FALSE, "")
    /\ UNCHANGED <<price_history, volume_history>>

\* the exit test of on_tick with the thresholds themselves left out
ExitReached_Strict(position, entry_price, price) ==
    LET pnl_pct == IF position > 0
                   THEN FracDiv(<<price - entry_price, 1>>, <<entry_price, 1>>)
                   ELSE FracDiv(<<entry_price - price, 1>>, <<entry_price, 1>>)
    IN  \/ FracGreater(pnl_pct, take_profit_pct)
        \/ FracGreater(FracNeg(stop_loss_pct), pnl_pct)

\* the exit test of on_tick: pnl_pct >= take_profit_pct or
\* pnl_pct <= -stop_loss_pct, for a position and entry price other than 0
ExitReached(position, entry_price, price) ==
    LET pnl_pct == IF position > 0
                   THEN FracDiv(<<price - entry_price, 1>>, <<entry_price, 1>>)
                   ELSE FracDiv(<<entry_price - price, 1>>, <<entry_price, 1>>)
    IN  \/ ~FracGreater(take_profit_pct, pnl_pct)
        \/ ~FracGreater(pnl_pct, FracNeg(stop_loss_pct))

\* the list on_tick keeps: the first max_history entries
Kept_Oldest(list) ==
    IF Len(list) > max_history THEN SubSeq(list, 1, max_history) ELSE list

\* the list on_tick keeps: the last max_history entries
Kept(list) == IF Len(list) > max_history THEN LastN(list, max_history) ELSE list

\* Strategy.update_market_data and MomentumStrategy.on_tick: the tick is
\* appended to the histories, which are cut to max_history; with
\* ma_long_period ticks on record an open position is closed at take
\* profit or stop loss; dividing by an entry price of 0 raises
Momentum_on_tick(tick) ==
    LET ins == tick.instrument
        prices == Kept(Append(price_history[ins], tick.ltp))
        position == strategy_positions[ins]
        entry_price == IF ins \in DOMAIN entry_prices
                       THEN entry_prices[ins] ELSE 0
        checked == Len(prices) >= ma_long_period /\ position # 0
        raises == checked /\ entry_price = 0
        closes == checked /\ entry_price # 0
                     /\ ExitReached(position, entry_price, tick.ltp)
    IN  /\ mo_active
        /\ price_history' = [price_history EXCEPT ![ins] = prices]
        /\ volume_history' =
              [volume_history EXCEPT
                 ![ins] = IF Len(price_history[ins]) + 1 > max_history
                          THEN LastN(Append(@, tick.volume), max_history)
                          ELSE Append(@, tick.volume)]
        /\ strategy_positions' =
              IF closes THEN [strategy_positions EXCEPT ![ins] = 0]
              ELSE strategy_positions
        /\ entry_prices' =
              IF closes
              THEN [i \in DOMAIN entry_prices \ {ins} |-> entry_prices[i]]
              ELSE entry_prices
        /\ mo_last' = MomentumCall("on_tick", tick, <<>>, <<>>, closes,
                                   IF raises THEN "ZeroDivisionError" ELSE "")
        /\ UNCHANGED mo_active

\* generate_signals has enough data for the instrument
EnoughData(ins) == Len(price_history[ins]) >= ma_long_period

\* the signals of one instrument with an entry on every BUY or SELL,
\* whatever the position
InstrumentSignals_Pyramiding(ins) ==
    LET signal == calculate_momentum_signal(ins)
        sig(action, quantity, reason) ==
            [instrument |-> ins, action |-> action, quantity |-> quantity,
             order_type |-> "MARKET", reason |-> reason]
    IN  IF signal = "BUY" THEN <<sig("BUY", position_size, "enter_long")>>
        ELSE IF signal = "SELL"
        THEN <<sig("SELL", position_size, "enter_short")>>
        ELSE <<>>

\* the signals of one instrument, the entry put before the close
InstrumentSignals_EntryFirst(ins) ==
    LET position == strategy_positions[ins]
        signal == calculate_momentum_signal(ins)
        sig(action, quantity, reason) ==
            [instrument |-> ins, action |-> action, quantity |-> quantity,
             order_type |-> "MARKET", reason |-> reason]
    IN  IF signal = "BUY" /\ position <= 0
        THEN <<sig("BUY", position_size, "enter_long")>>
             \o (IF position < 0
                 THEN <<sig("BUY", Abs(position), "close_short")>>
                 ELSE <<>>)
        ELSE IF signal = "SELL" /\ position >= 0
        THEN <<sig("SELL", position_size, "enter_short")>>
             \o (IF position > 0
                 THEN <<sig("SELL", position, "close_long")>>
                 ELSE <<>>)
        ELSE <<>>

\* the signals generate_signals appends for one instrument with enough
\* data
InstrumentSignals(ins) ==
    LET position == strategy_positions[ins]
        signal == calculate_momentum_signal(ins)
        sig(action, quantity, reason) ==
            [instrument |-> ins, action |-> action, quantity |-> quantity,
             order_type |-> "MARKET", reason |-> reason]
    IN  IF signal = "BUY" /\ position <= 0
        THEN (IF position < 0
              THEN <<sig("BUY", Abs(position), "close_short")>>
              ELSE <<>>)
             \o <<sig("BUY", position_size, "enter_long")>>
        ELSE IF signal = "SELL" /\ position >= 0
        THEN (IF position > 0
              THEN <<sig("SELL", position, "close_long")>>
              ELSE <<>>)
             \o <<sig("SELL", position_size, "enter_short")>>
        ELSE <<>>

\* generate_signals that ends its loop at the first instrument without
\* enough data
RECURSIVE generate_signals_Break(_)
generate_signals_Break(k) ==
    IF k > Len(MomentumInstruments) THEN <<>>
    ELSE IF ~EnoughData(MomentumInstruments[k]) THEN <<>>
    ELSE InstrumentSignals(MomentumInstruments[k])
         \o generate_signals_Break(k + 1)

\* MomentumStrategy.generate_signals over self.instruments from the k-th
RECURSIVE generate_signals(_)
generate_signals(k) ==
    IF k > Len(MomentumInstruments) THEN <<>>
    ELSE (IF EnoughData(MomentumInstruments[k])
          THEN InstrumentSignals(MomentumInstruments[k])
          ELSE <<>>)
         \o generate_signals(k + 1)

\* the momentum signal generate_signals computes per instrument, "" for
\* an instrument it skips
MomentumSignals ==
    [k \in 1..Len(MomentumInstruments) |->
        IF EnoughData(MomentumInstruments[k])
        THEN calculate_momentum_signal(MomentumInstruments[k])
        ELSE ""]

\* execute_signals that records the entry price of long entries only
RECURSIVE execute_signals_LongOnly(_, _, _)
execute_signals_LongOnly(P, E, signals) ==
    IF signals = <<>> THEN <<P, E>>
    ELSE LET signal == Head(signals)
             ins == signal.instrument
             last_price == price_history[ins][Len(price_history[ins])]
         IN  execute_signals_LongOnly(
                 [P EXCEPT ![ins] = IF signal.action = "BUY"
                                    THEN @ + signal.quantity
                                    ELSE @ - signal.quantity],
                 IF signal.action = "BUY" /\ signal.reason = "enter_long"
                 THEN [i \in DOMAIN E \cup {ins} |->
                          IF i = ins THEN last_price ELSE E[i]]
                 ELSE E,
                 Tail(signals))

\* MomentumStrategy.execute_signals: positions and entry prices after the
\* signals, as the pair <<strategy_positions, entry_prices>>
RECURSIVE execute_signals(_, _, _)
execute_signals(P, E, signals) ==
    IF signals = <<>> THEN <<P, E>>
    ELSE LET signal == Head(signals)
             ins == signal.instrument
             last_price == price_history[ins][Len(price_history[ins])]
             enters == signal.reason \in {"enter_long", "enter_short"}
         IN  execute_signals(
                 [P EXCEPT ![ins] = IF signal.action = "BUY"
                                    THEN @ + signal.quantity
                                    ELSE @ - signal.quantity],
                 IF (signal.action = "BUY" /\ signal.reason = "enter_long")
                    \/ (signal.action # "BUY"
                          /\ signal.reason = "enter_short")
                 THEN [i \in DOMAIN E \cup {ins} |->
                          IF i = ins THEN last_price ELSE E[i]]
                 ELSE E,
                 Tail(signals))

\* StrategyManager.run_strategies for the strategy: generate_signals and,
\* if there are any, execute_signals
Momentum_run_strategies ==
    /\ mo_active
    /\ LET signals == generate_signals(1)
           after == execute_signals(strategy_positions, entry_prices, signals)
       IN  /\ strategy_positions' = after[1]
           /\ entry_prices' = after[2]
           /\ mo_last' = MomentumCall("run_strategies", <<>>, signals,
                                      MomentumSignals, FALSE, "")
    /\ UNCHANGED <<mo_active, price_history, volume_history>>

(***************************************************************************)
(* Backtest: candles, synthetic ticks and the replay of run.  A timestamp  *)
(* is a whole number of fifths of a minute, the offset between two         *)
(* synthetic ticks; volumes are exact fractions.                           *)
(***************************************************************************)
\* the Backtest objects: two, fed with candles independently
Backtests == {1, 2}
\* timestamps of the one-minute candles
CandleTimes == {0, 5}
\* the rows of a data file: an upward and a downward candle (open, high,
\* low, close in half units, chosen with even sums so that the midpoints
\* of the price path are whole)
Candle(timestamp, up) ==
    [timestamp |-> timestamp, open |-> 4690, high |-> 4700, low |-> 4680,
     close |-> IF up THEN 4696 ELSE 4684, volume |-> 10]
\* the data of one instrument: up to MaxCandles candles in time order
CandleFrames ==
    UNION { { f \in [1..n -> { Candle(t, up) : t \in CandleTimes,
                                               up \in BOOLEAN }] :
                \A i \in 1..(n - 1) : f[i].timestamp < f[i + 1].timestamp }
            : n \in 1..MaxCandles }
\* one candle at the first timestamp
SingleCandleFrames == { f \in CandleFrames : Len(f) = 1 /\ f[1].timestamp = 0 }

\* outcomes of np.random.dirichlet(np.ones(5)): five positive weights
\* that sum to 1, in tenths
DirichletWeights ==
    { <<2, 2, 2, 2, 2>>, <<4, 2, 2, 1, 1>> }

\* load_csv_data or the direct assignment of a data frame: the instrument
\* joins self.instruments and its candles are stored
load_csv_data(b, instrument, rows) ==
    /\ bt_instruments' =
          [bt_instruments EXCEPT
             ![b] = IF \E k \in 1..Len(@) : @[k] = instrument THEN @
                    ELSE Append(@, instrument)]
    /\ bt_data' =
          [bt_data EXCEPT
             ![b] = [ins \in DOMAIN @ \cup {instrument} |->
                       IF ins = instrument THEN rows ELSE @[ins]]]
    /\ UNCHANGED <<tick_frames, prepared_from>>

\* the price path of a candle: open, midpoint, extreme, midpoint, close
PricePath(row) ==
    IF row.close > row.open
    THEN <<row.open, (row.open + row.high) \div 2, row.high,
           (row.high + row.close) \div 2, row.close>>
    ELSE <<row.open, (row.open + row.low) \div 2, row.low,
           (row.low + row.close) \div 2, row.close>>

\* the five synthetic ticks of a candle, its volume split by the weights
\* drawn for it
CandleTicks(instrument, row, weights) ==
    [i \in 1..5 |->
        [timestamp |-> row.timestamp + i,
         instrument |-> instrument,
         ltp |-> PricePath(row)[i],
         volume |-> Frac(weights[i] * row.volume, 10),
         bid |-> Frac(PricePath(row)[i] * 999, 1000),
         ask |-> Frac(PricePath(row)[i] * 1001, 1000)]]

\* the ticks of the rows from the k-th on, weights[k] drawn for row k
RECURSIVE FrameTicks(_, _, _, _)
FrameTicks(instrument, rows, weights, k) ==
    IF k > Len(rows) THEN <<>>
    ELSE CandleTicks(instrument, rows[k], weights[k])
         \o FrameTicks(instrument, rows, weights, k + 1)

\* the instruments prepare_tick_data gets to: it walks self.data in
\* insertion order, and the first '_ticks' key it adds changes the size of
\* the dict, so that the loop ends there with a RuntimeError
Prepared(b) ==
    LET order == bt_instruments[b]
        fresh == { k \in 1..Len(order) : order[k] \notin DOMAIN tick_frames[b] }
    IN  { order[k] : k \in { j \in 1..Len(order) :
                                \A f \in fresh : j <= f } }

\* prepare_tick_data; draws[ins][k] are the weights drawn for row k
prepare_tick_data(b, draws) ==
    /\ Prepared(b) # {}
    /\ tick_frames' =
          [tick_frames EXCEPT
             ![b] = [ins \in DOMAIN @ \cup Prepared(b) |->
                       IF ins \in Prepared(b)
                       THEN FrameTicks(ins, bt_data[b][ins], draws[ins], 1)
                       ELSE @[ins]]]
    /\ prepared_from' =
          [prepared_from EXCEPT
             ![b] = [ins \in DOMAIN @ \cup Prepared(b) |->
                       IF ins \in Prepared(b) THEN bt_data[b][ins]
                       ELSE @[ins]]]
    /\ UNCHANGED <<bt_instruments, bt_data>>

\* a row of candle data in the basic tick format of run: ltp is the
\* close, bid and ask default to ltp * 0.999 and ltp * 1.001
BasicTick(instrument, row) ==
    [timestamp |-> row.timestamp, instrument |-> instrument,
     ltp |-> row.close, volume |-> <<row.volume, 1>>,
     bid |-> Frac(row.close * 999, 1000),
     ask |-> Frac(row.close * 1001, 1000)]

\* the frame run takes for an instrument: its synthetic ticks if there
\* are any, otherwise its candles in the basic tick format
TickFrame(b, instrument) ==
    IF instrument \in DOMAIN tick_frames[b] THEN tick_frames[b][instrument]
    ELSE [k \in 1..Len(bt_data[b][instrument]) |->
            BasicTick(instrument, bt_data[b][instrument][k])]

\* pd.concat of the frames of self.instruments from the k-th on
RECURSIVE Concat(_, _)
Concat(b, k) ==
    IF k > Len(bt_instruments[b]) THEN <<>>
    ELSE TickFrame(b, bt_instruments[b][k]) \o Concat(b, k + 1)

\* the list with x put in before position k
InsertAt(list, k, x) ==
    SubSeq(list, 1, k - 1) \o <<x>> \o SubSeq(list, k, Len(list))

\* the outcomes of a stable sort by timestamp: a tick goes behind the
\* ticks of its timestamp that came before it
SortedByTimestamp_Stable(list) ==
    LET RECURSIVE sorted(_)
        sorted(n) ==
            IF n = 0 THEN <<>>
            ELSE LET before == sorted(n - 1)
                     k == CHOOSE j \in 1..n :
                            /\ \A i \in 1..(j - 1) :
                                  before[i].timestamp <= list[n].timestamp
                            /\ \A i \in j..(n - 1) :
                                  before[i].timestamp > list[n].timestamp
                 IN  InsertAt(before, k, list[n])
    IN  {sorted(Len(list))}

\* the outcomes of sort_values('timestamp'): the default sort is not a
\* stable one, so rows of equal timestamp come out in any order
SortedByTimestamp(list) ==
    LET RECURSIVE sorted(_)
        sorted(n) ==
            IF n = 0 THEN {<<>>}
            ELSE UNION { { InsertAt(before, k, list[n]) :
                             k \in { j \in 1..n :
                                 /\ \A i \in 1..(j - 1) :
                                       before[i].timestamp
                                           <= list[n].timestamp
                                 /\ \A i \in j..(n - 1) :
                                       before[i].timestamp
                                           >= list[n].timestamp } }
                         : before \in sorted(n - 1) }
    IN  sorted(Len(list))

\* no run of the Backtest object is under way
Idle == equity_curve = <<>> \/ replayed = Len(all_ticks)

\* run of Backtest object 1 up to its tick loop: results are reset, the
\* equity curve gets its initial point, the frames of the instruments are
\* merged and sorted by timestamp
run(b) ==
    /\ Idle
    /\ bt_instruments[b] # <<>>
    /\ trades' = <<>>
    /\ bt_positions' = <<>>
    /\ strategy_calls' = <<>>
    /\ current_equity' = <<initial_capital, 1>>
    /\ equity_curve' = << [timestamp |-> -1,
                           equity |-> <<initial_capital, 1>>] >>
    /\ merged' = Concat(b, 1)
    /\ all_ticks' \in SortedByTimestamp(Concat(b, 1))
    /\ replayed' = 0
    /\ UNCHANGED data_vars

\* one turn of the tick loop of run: process_tick with the signals of the
\* strategy, calculate_equity, and a new point of the equity curve
run_tick(signals) ==
    /\ equity_curve # <<>>
    /\ replayed < Len(all_ticks)
    /\ LET tick == all_ticks[replayed + 1]
       IN  /\ process_tick(tick.instrument, tick.ltp, signals)
           /\ equity_curve' =
                 Append(equity_curve, [timestamp |-> tick.timestamp,
                                       equity |-> current_equity'])
    /\ replayed' = replayed + 1
    /\ UNCHANGED <<data_vars, merged, all_ticks>>

(***************************************************************************)
(* Specifications.                                                         *)
(***************************************************************************)
ExecInit ==
    /\ objs = <<>>
    /\ orders = <<>>
    /\ total_orders = 0
    /\ filled_orders = 0
    /\ rejected_orders = 0
    /\ fill_rate = <<>>
    /\ inflight = EmptyBag
    /\ last = Returned("", "", "", 0)

RiskInit ==
    /\ positions = <<>>
    /\ r_orders = <<>>
    /\ daily_pnl = 0
    /\ peak_pnl = 0
    /\ current_drawdown = <<0, 1>>
    /\ trading_enabled = TRUE
    /\ risk_breach = FALSE
    /\ risk_breach_reason = ""
    /\ now = 0
    /\ rlast = NoResult
    /\ pending = EmptyBag

\* run before its first tick: no trades, no positions, one equity point
BookInit ==
    /\ bt_positions = <<>>
    /\ trades = <<>>
    /\ current_equity = <<initial_capital, 1>>
    /\ strategy_calls = <<>>

\* the market making strategy as constructed
MMInit ==
    /\ mm_active = FALSE
    /\ mm_market_data = <<>>
    /\ mm_positions = <<>>
    /\ active_bids = <<>>
    /\ active_asks = <<>>
    /\ last_mid_prices = <<>>
    /\ mm_inflight = EmptyBag
    /\ mm_last = MMCall("", "", None)
    /\ quoted_mid = <<>>

\* the momentum strategy as constructed
MomentumInit ==
    /\ mo_active = FALSE
    /\ price_history = [ins \in Instruments |-> <<>>]
    /\ volume_history = [ins \in Instruments |-> <<>>]
    /\ strategy_positions = [ins \in Instruments |-> 0]
    /\ entry_prices = <<>>
    /\ mo_last = MomentumCall("", <<>>, <<>>, <<>>, FALSE, "")

\* the Backtest objects as constructed
ReplayInit ==
    /\ bt_instruments = [b \in Backtests |-> <<>>]
    /\ bt_data = [b \in Backtests |-> <<>>]
    /\ tick_frames = [b \in Backtests |-> <<>>]
    /\ prepared_from = [b \in Backtests |-> <<>>]
    /\ merged = <<>>
    /\ all_ticks = <<>>
    /\ replayed = 0
    /\ equity_curve = <<>>

Init ==
    ExecInit /\ RiskInit /\ BookInit /\ MMInit /\ MomentumInit /\ ReplayInit

\* the executor under concurrent callers
Next ==
    \/ PlaceBegin /\ UNCHANGED <<risk_vars, book_vars, mm_vars, mo_vars, replay_vars>>
    \/ \E f \in Suspended : PlaceFinish(f) /\ UNCHANGED <<risk_vars, book_vars, mm_vars, mo_vars, replay_vars>>
    \/ ModifyBegin /\ UNCHANGED <<risk_vars, book_vars, mm_vars, mo_vars, replay_vars>>
    \/ \E f \in Suspended : ModifyFinish(f) /\ UNCHANGED <<risk_vars, book_vars, mm_vars, mo_vars, replay_vars>>
    \/ CancelBegin /\ UNCHANGED <<risk_vars, book_vars, mm_vars, mo_vars, replay_vars>>
    \/ \E f \in Suspended : CancelFinish(f) /\ UNCHANGED <<risk_vars, book_vars, mm_vars, mo_vars, replay_vars>>
    \/ CancelAllBegin /\ UNCHANGED <<risk_vars, book_vars, mm_vars, mo_vars, replay_vars>>
    \/ \E f \in Suspended : CancelAllResume(f) /\ UNCHANGED <<risk_vars, book_vars, mm_vars, mo_vars, replay_vars>>

Spec == Init /\ [][Next]_vars

\* the risk manager fed with positions, orders and the clock
RiskNext ==
    \/ \E ins \in Instruments, q \in PosQuantities, p \in Prices :
         update_position(ins, q, p) /\ UNCHANGED <<exec_vars, book_vars, mm_vars, mo_vars, replay_vars>>
    \/ \E ins \in Instruments, q \in PosQuantities, a \in Prices, p \in Prices :
         SyncPosition(ins, q, a, p) /\ UNCHANGED <<exec_vars, book_vars, mm_vars, mo_vars, replay_vars>>
    \/ \E id \in RiskOrderIds, st \in RiskOrderStatuses :
         update_order(id, st) /\ UNCHANGED <<exec_vars, book_vars, mm_vars, mo_vars, replay_vars>>
    \/ Tick /\ UNCHANGED <<exec_vars, book_vars, mm_vars, mo_vars, replay_vars>>
    \/ check_all_risk_limits /\ UNCHANGED <<exec_vars, book_vars, mm_vars, mo_vars, replay_vars>>

SpecRisk == Init /\ [][RiskNext]_vars

\* the risk manager driven through its own update operations only
RiskPublicNext ==
    \/ \E ins \in Instruments, q \in PosQuantities, p \in Prices :
         update_position(ins, q, p)
            /\ UNCHANGED <<exec_vars, book_vars, mm_vars, mo_vars, replay_vars>>
    \/ \E id \in RiskOrderIds, st \in RiskOrderStatuses :
         update_order(id, st)
            /\ UNCHANGED <<exec_vars, book_vars, mm_vars, mo_vars, replay_vars>>
    \/ Tick /\ UNCHANGED <<exec_vars, book_vars, mm_vars, mo_vars, replay_vars>>
    \/ check_all_risk_limits
         /\ UNCHANGED <<exec_vars, book_vars, mm_vars, mo_vars, replay_vars>>

SpecRiskPublic == Init /\ [][RiskPublicNext]_vars

\* signals validated and filled while other signals are validated
GateNext ==
    \/ \E sig \in Signals : validate_order(sig) /\ UNCHANGED <<exec_vars, book_vars, mm_vars, mo_vars, replay_vars>>
    \/ \E sig \in Signals : ApplyFill(sig, 1) /\ UNCHANGED <<exec_vars, book_vars, mm_vars, mo_vars, replay_vars>>
    \/ Tick /\ UNCHANGED <<exec_vars, book_vars, mm_vars, mo_vars, replay_vars>>
    \/ check_all_risk_limits /\ UNCHANGED <<exec_vars, book_vars, mm_vars, mo_vars, replay_vars>>

SpecGate == Init /\ [][GateNext]_vars

\* a backtest run: tick after tick, each with the signals of the strategy
BookNext ==
    \E ins \in Instruments, ltp \in TickPrices, signals \in SignalLists :
        process_tick(ins, ltp, signals) /\ UNCHANGED <<exec_vars, risk_vars, mm_vars, mo_vars, replay_vars>>

SpecBook == Init /\ [][BookNext]_vars

\* the tick loop of the backtest with a strategy whose signals may lack
\* fields or carry a quantity of 0 or below
IntakeNext ==
    \E ins \in Instruments, ltp \in SignalPrices,
       signals \in IntakeSignalLists :
        process_tick(ins, ltp, signals)
            /\ UNCHANGED <<exec_vars, risk_vars, mm_vars, mo_vars,
                           replay_vars>>

SpecIntake == Init /\ [][IntakeNext]_vars

\* the market making strategy under ticks, position reports, strategy
\* rounds, start and stop
MMNext ==
    \/ MM_start /\ UNCHANGED <<exec_vars, risk_vars, book_vars, mo_vars, replay_vars>>
    \/ MM_stop /\ UNCHANGED <<exec_vars, risk_vars, book_vars, mo_vars, replay_vars>>
    \/ \E ins \in MMInstruments, q \in MMQuantities :
         MM_update_position(ins, q)
            /\ UNCHANGED <<exec_vars, risk_vars, book_vars, mo_vars, replay_vars>>
    \/ \E tick \in MMTicks :
         MM_on_tick(tick) /\ UNCHANGED <<exec_vars, risk_vars, book_vars, mo_vars, replay_vars>>
    \/ \E f \in BagToSet(mm_inflight) :
         MM_on_tick_resume(f)
            /\ UNCHANGED <<exec_vars, risk_vars, book_vars, mo_vars, replay_vars>>
    \/ MM_run_strategies /\ UNCHANGED <<exec_vars, risk_vars, book_vars, mo_vars, replay_vars>>

SpecMM == Init /\ [][MMNext]_vars

\* the ticks on record, over all instruments
TicksOnRecord ==
    Len(price_history["NIFTY"]) + Len(price_history["INFY"])

\* the momentum strategy under ticks, strategy rounds, start and stop
MomentumNext ==
    \/ Momentum_start
         /\ UNCHANGED <<exec_vars, risk_vars, book_vars, mm_vars, replay_vars>>
    \/ Momentum_stop
         /\ UNCHANGED <<exec_vars, risk_vars, book_vars, mm_vars, replay_vars>>
    \/ \E tick \in MomentumTicks :
         /\ TicksOnRecord < MaxMomentumTicks
         /\ Momentum_on_tick(tick)
         /\ UNCHANGED <<exec_vars, risk_vars, book_vars, mm_vars, replay_vars>>
    \/ Momentum_run_strategies
         /\ UNCHANGED <<exec_vars, risk_vars, book_vars, mm_vars, replay_vars>>

SpecMomentum == Init /\ [][MomentumNext]_vars

\* the momentum strategy on a long replay of one instrument
HistoryNext ==
    \/ Momentum_start
         /\ UNCHANGED <<exec_vars, risk_vars, book_vars, mm_vars, replay_vars>>
    \/ \E tick \in HistoryTicks :
         /\ Momentum_on_tick(tick)
         /\ UNCHANGED <<exec_vars, risk_vars, book_vars, mm_vars, replay_vars>>

SpecHistory == Init /\ [][HistoryNext]_vars

\* the components other than the backtest data
beyond_data == <<exec_vars, risk_vars, book_vars, mm_vars, mo_vars, run_vars>>

\* two Backtest objects that load candles and prepare synthetic ticks
PrepareNext ==
    \/ \E b \in Backtests, ins \in Instruments, rows \in SingleCandleFrames :
         load_csv_data(b, ins, rows) /\ UNCHANGED beyond_data
    \/ \E b \in Backtests :
         \E draws \in [Prepared(b) -> [1..1 -> DirichletWeights]] :
            prepare_tick_data(b, draws) /\ UNCHANGED beyond_data

SpecPrepare == Init /\ [][PrepareNext]_vars

\* the signals of the strategy in a replay
ReplaySignalLists ==
    { signals \in SignalLists :
        \A k \in 1..Len(signals) :
            /\ signals[k].instrument = "NIFTY"
            /\ signals[k].quantity = 5
            /\ signals[k].price = 4691 }

\* the candle data of a replay: upward candles
ReplayFrames ==
    { f \in CandleFrames : \A k \in 1..Len(f) : f[k].close > f[k].open }

\* one Backtest object that loads candles and replays them
RunNext ==
    \/ \E ins \in Instruments, rows \in ReplayFrames :
         /\ Idle
         /\ load_csv_data(1, ins, rows)
         /\ UNCHANGED <<exec_vars, risk_vars, book_vars, mm_vars, mo_vars,
                        run_vars>>
    \/ run(1) /\ UNCHANGED <<exec_vars, risk_vars, mm_vars, mo_vars>>
    \/ \E signals \in ReplaySignalLists :
         run_tick(signals) /\ UNCHANGED <<exec_vars, risk_vars, mm_vars, mo_vars>>

SpecRun == Init /\ [][RunNext]_vars

(***************************************************************************)
(* Properties of the order ledger (specification Spec).                    *)
(***************************************************************************)
\* the order dicts the ledger holds
Held == { orders[i][2] : i \in 1..Len(orders) }

\* the frames a step suspends
Admitted ==
    { g \in BagToSet(inflight') : CopiesIn(g, inflight') > CopiesIn(g, inflight) }

\* the step resumes the suspended frame f
Resumes(f) == CopiesIn(f, inflight') < CopiesIn(f, inflight)

LegalEdges ==
    { <<"PENDING", "OPEN">>, <<"PENDING", "REJECTED">>,
      <<"OPEN", "COMPLETE">>, <<"OPEN", "CANCELLED">>, <<"OPEN", "ERROR">> }

\* C1: every status change of an order held by the ledger follows an edge
\* of the order state machine; in particular a terminal order (REJECTED,
\* COMPLETE, CANCELLED, ERROR) never changes status again.
C1_OrderStateMachine ==
    [][\A o \in Held :
         objs'[o].status # objs[o].status
            => <<objs[o].status, objs'[o].status>> \in LegalEdges]_vars

\* C2: a modify_order or cancel_order that takes effect after a concurrent
\* call made the order terminal returns the InvalidStateTransition error;
\* the one whose OPEN/PENDING precondition still holds returns the order.
C2_ConcurrentMutationOneWins ==
    [][\A f \in Suspended :
         (f.pc \in {"modify_wait", "cancel_wait"} /\ Resumes(f))
            => IF objs[f.obj].status \in ActiveStatuses
               THEN last'.ret = "order"
               ELSE last'.ret = "invalid_state"]_vars

\* C3: the ids place_order assigns are strictly increasing in call order
\* (the heap lists the order dicts in the order of the calls), so no two
\* placed orders share an id.
C3_IdsStrictlyIncreasing ==
    \A i, j \in 1..Len(objs) :
        i < j => objs[i].order_id < objs[j].order_id

\* the tally of a cancel_all_orders frame after the step that resumes it
TallyAfter ==
    IF \E g \in Admitted : g.pc = "all_wait"
    THEN (CHOOSE g \in Admitted : g.pc = "all_wait").cancelled
    ELSE last'.cancelled

\* C5: when the collaborator answers a cancel with "Order already
\* executed", the order ends COMPLETE, cancel_order returns an error
\* result, and cancel_all_orders does not count the order as cancelled.
C5_CancelRacingFill ==
    [][\A f \in Suspended :
         (f.pc \in {"cancel_wait", "all_wait"} /\ Resumes(f)
            /\ filled_orders' = filled_orders + 1)
            => /\ objs'[f.obj].status = "COMPLETE"
               /\ f.pc = "cancel_wait" => last'.ret = "invalid_state"
               /\ f.pc = "all_wait" => TallyAfter = f.cancelled]_vars

\* C6: modify_order and cancel_order do not go ahead on an order whose
\* status is REJECTED, COMPLETE, CANCELLED or ERROR (no frame is suspended
\* on it), and the call that returns the InvalidStateTransition error
\* leaves every order dict, the ledger and the counters as they were.
C6_TerminalOrderRejectsMutation ==
    [][/\ \A g \in Admitted :
            g.pc \in {"modify_wait", "cancel_wait", "all_wait"}
               => objs[g.obj].status \in ActiveStatuses
       /\ (last'.ret = "invalid_state" /\ last' # last)
            => UNCHANGED <<objs, orders, total_orders, filled_orders,
                           rejected_orders, fill_rate, inflight>>]_vars

\* C6 witness: a modify_order on a COMPLETE order, and earlier a finished
\* order, returned the error
C6_Witness ==
    /\ last.op \in {"modify", "cancel"}
    /\ last.ret = "invalid_state"
    /\ \E o \in Held : objs[o].status \in {"COMPLETE", "CANCELLED"}
    /\ \E o \in Held : objs[o].status = "REJECTED"

(***************************************************************************)
(* Properties of the risk gate (specifications SpecGate, SpecRisk).        *)
(***************************************************************************)
RECURSIVE PendingChangeOf(_, _)
PendingChangeOf(ins, S) ==
    IF S = {} THEN 0
    ELSE LET g == CHOOSE x \in S : TRUE
         IN (IF g.instrument = ins
             THEN CopiesIn(g, pending) * QuantityChange(g) ELSE 0)
              + PendingChangeOf(ins, S \ {g})

\* the signed quantity the approved signals on their way will add
PendingChange(ins) == PendingChangeOf(ins, BagToSet(pending))

\* C4: the position that results from all approved signals stays within
\* the instrument's size limit, also while approved signals are still on
\* their way to the position table.
C4_ApprovedWithinHeadroom ==
    \A ins \in Instruments :
        Abs(PositionQuantity(ins) + PendingChange(ins)) <= PositionLimit(ins)

\* C7: with trading enabled, validate_order allows a signal exactly when
\* the signed position after applying its signed quantity is within the
\* instrument's size limit in absolute value.
C7_PositionLimitDecision ==
    (rlast.op = "validate_order" /\ trading_enabled)
        => (rlast.ok <=>
              Abs(PositionQuantity(rlast.signal.instrument)
                    + QuantityChange(rlast.signal))
                 <= PositionLimit(rlast.signal.instrument))

\* C8: current_drawdown is 0 when peak_pnl <= 0 and within [0, 1] when
\* peak_pnl > 0.
C8_DrawdownRange ==
    /\ peak_pnl <= 0 => current_drawdown[1] = 0
    /\ peak_pnl > 0 => /\ 0 <= current_drawdown[1]
                       /\ current_drawdown[1] <= current_drawdown[2]

\* the daily-loss breach as check_all_risk_limits reports it
DailyLossBreachReported ==
    /\ ~rlast.ok
    /\ rlast.reason = "Daily loss limit exceeded"
    /\ risk_breach_reason = "Daily loss limit exceeded"
    /\ ~trading_enabled

\* C9 (as claimed): inside trading hours a check reports the daily-loss
\* breach whenever daily P&L <= -max_daily_loss.
C9_DailyLossAtOrBelow ==
    (rlast.op = "check_all_risk_limits" /\ check_market_hours
       /\ daily_pnl <= -max_daily_loss)
        => DailyLossBreachReported

\* C9 (amended): inside trading hours a check reports the daily-loss
\* breach whenever daily P&L < -max_daily_loss, and does not report it
\* when daily P&L is -max_daily_loss exactly or above.
C9_DailyLossBelow ==
    (rlast.op = "check_all_risk_limits" /\ check_market_hours)
        => /\ daily_pnl < -max_daily_loss => DailyLossBreachReported
           /\ daily_pnl >= -max_daily_loss
                => rlast.reason # "Daily loss limit exceeded"

\* C9 witness: a check inside trading hours with the loss beyond the limit
C9_Witness ==
    /\ rlast.op = "check_all_risk_limits"
    /\ check_market_hours
    /\ daily_pnl < -max_daily_loss
    /\ DailyLossBreachReported

\* the checks in the documented order, each with its reason and whether
\* it fails in the current state
CheckOrder ==
    << <<"Outside market hours", ~check_market_hours>>,
       <<"Daily loss limit exceeded", ~check_daily_loss_limit>>,
       <<"Drawdown limit exceeded", ~check_drawdown_limit>>,
       <<"Notional exposure limit exceeded", ~check_notional_exposure>>,
       <<"Open orders limit exceeded", ~check_open_orders_limit>>,
       <<"Auto square off time reached", check_auto_square_off>> >>

FailingChecks == { i \in 1..Len(CheckOrder) : CheckOrder[i][2] }

\* C10: after check_all_risk_limits the recorded breach reason is that of
\* the first failing check in the order hours, daily loss, drawdown,
\* exposure, open orders, square-off, whatever later checks also fail;
\* no reason is recorded when no check fails.
C10_FirstFailureWins ==
    rlast.op = "check_all_risk_limits"
        => /\ FailingChecks = {} => risk_breach_reason = ""
           /\ \A i \in FailingChecks :
                (\A j \in FailingChecks : i <= j)
                   => risk_breach_reason = CheckOrder[i][1]

\* C10 witness: a check inside trading hours found the daily loss, the
\* drawdown and a later check failing together
C10_Witness ==
    /\ rlast.op = "check_all_risk_limits"
    /\ {2, 3} \subseteq FailingChecks
    /\ FailingChecks \cap {4, 5, 6} # {}
    /\ risk_breach_reason = "Daily loss limit exceeded"

\* C11: trading_enabled is false exactly when the most recent
\* check_all_risk_limits found a breach: after a check trading_enabled is
\* the check's result, which is "no check fails" (so a later breach-free
\* check re-enables trading); risk_breach is always the negation of
\* trading_enabled and a breach reason is recorded exactly while trading is
\* disabled; only a check changes trading_enabled.
C11_TradingEnabledLatch ==
    [][ /\ risk_breach' = ~trading_enabled'
        /\ (risk_breach_reason' # "") = ~trading_enabled'
        /\ rlast'.op = "check_all_risk_limits"
              => /\ trading_enabled' = rlast'.ok
                 /\ rlast'.ok = (FailingChecks' = {})
        /\ trading_enabled' # trading_enabled
              => rlast'.op = "check_all_risk_limits" ]_vars

\* C11 witness: a check inside trading hours passed with positions and
\* orders on record, so trading is enabled at a time when the check at
\* the initial hour could not have passed
C11_Witness ==
    /\ rlast.op = "check_all_risk_limits"
    /\ rlast.ok
    /\ trading_enabled
    /\ ~risk_breach
    /\ now >= market_hours.start
    /\ DOMAIN positions # {}

\* C12: while trading is disabled validate_order denies every signal,
\* whatever its instrument, side and quantity, with the reason "Trading
\* disabled" naming the latched breach reason; a validate_order call
\* changes neither trading_enabled nor the positions nor the orders.
C12_DisabledDeniesAll ==
    [][ rlast'.op = "validate_order"
          => /\ ~trading_enabled'
                  => /\ ~rlast'.ok
                     /\ rlast'.reason = "Trading disabled"
                     /\ rlast'.names = risk_breach_reason'
                     /\ rlast'.names # ""
             /\ UNCHANGED <<trading_enabled, positions, r_orders>> ]_vars

\* C12 witness: with trading disabled and a position on record, a signal
\* that fits the position limit has been denied for the latched breach
C12_Witness ==
    /\ rlast.op = "validate_order"
    /\ ~trading_enabled
    /\ ~rlast.ok
    /\ rlast.names = risk_breach_reason
    /\ check_position_limit(rlast.signal.instrument,
                            QuantityChange(rlast.signal))
    /\ DOMAIN positions # {}

(***************************************************************************)
(* Properties of the backtest position book (specification SpecBook).      *)
(***************************************************************************)
\* the recorded trades of an instrument with the given action
TradesOf(ins, action) ==
    SelectSeq(trades, LAMBDA t : t.instrument = ins /\ t.action = action)

RECURSIVE SumQuantity(_)
SumQuantity(ts) ==
    IF ts = <<>> THEN 0 ELSE Head(ts).quantity + SumQuantity(Tail(ts))

RECURSIVE SumValue(_)
SumValue(ts) ==
    IF ts = <<>> THEN 0
    ELSE Head(ts).quantity * Head(ts).price + SumValue(Tail(ts))

\* the trade a step has added to the record, when it has added one
Traded == Len(trades') = Len(trades) + 1
NewTrade == trades'[Len(trades')]
LastTrade == trades[Len(trades)]

\* C13: an instrument that has only been bought, starting from no
\* position, has quantity sum(qty_i) and avg_price
\* sum(qty_i * price_i) / sum(qty_i) over its BUY trades.
C13_BuyWeightedMean ==
    \A ins \in Instruments :
        (TradesOf(ins, "BUY") # <<>> /\ TradesOf(ins, "SELL") = <<>>)
            => /\ bt_positions[ins].quantity
                    = SumQuantity(TradesOf(ins, "BUY"))
               /\ bt_positions[ins].avg_price
                    = Frac(SumValue(TradesOf(ins, "BUY")),
                           SumQuantity(TradesOf(ins, "BUY")))

\* C13 witness: three BUY trades of one instrument, at both prices and in
\* both quantities, with a mean that is neither price
C13_Witness ==
    \E ins \in Instruments :
        LET buys == TradesOf(ins, "BUY")
        IN  /\ Len(buys) = 3
            /\ TradesOf(ins, "SELL") = <<>>
            /\ { buys[k].price : k \in 1..3 } = SignalPrices
            /\ { buys[k].quantity : k \in 1..3 } = TradeQuantities
            /\ bt_positions[ins].quantity = SumQuantity(buys)
            /\ bt_positions[ins].avg_price[2] # 1

\* C14: a SELL of quantity Q at price P on a long position of quantity Q
\* and avg_price A adds exactly (P - A) * Q to realized_pnl and leaves
\* quantity 0.
C14_FullCloseRealizes ==
    [][ Traded =>
          LET ins == NewTrade.instrument
          IN  (/\ NewTrade.action = "SELL"
               /\ ins \in DOMAIN bt_positions
               /\ bt_positions[ins].quantity > 0
               /\ NewTrade.quantity = bt_positions[ins].quantity)
              => LET A == bt_positions[ins].avg_price
                     Q == bt_positions[ins].quantity
                 IN  /\ bt_positions'[ins].realized_pnl
                          = FracAdd(bt_positions[ins].realized_pnl,
                                    Frac((NewTrade.price * A[2] - A[1]) * Q,
                                         A[2]))
                     /\ bt_positions'[ins].quantity = 0 ]_vars

\* C14 witness: the last trade sold all that two BUY trades had bought,
\* at a price other than the average
C14_Witness ==
    /\ trades # <<>>
    /\ LastTrade.action = "SELL"
    /\ LET ins == LastTrade.instrument
       IN  /\ TradesOf(ins, "SELL") = <<LastTrade>>
           /\ Len(TradesOf(ins, "BUY")) = 2
           /\ SumQuantity(TradesOf(ins, "BUY")) = LastTrade.quantity
           /\ bt_positions[ins].quantity = 0
           /\ bt_positions[ins].realized_pnl[1] # 0

\* C15: a position whose quantity is 0 has avg_price 0.
C15_FlatHasNoAvgPrice ==
    \A ins \in DOMAIN bt_positions :
        bt_positions[ins].quantity = 0
            => bt_positions[ins].avg_price = <<0, 1>>

\* C16: the quantity of each instrument's position is the sum of its BUY
\* trade quantities minus the sum of its SELL trade quantities; an
\* instrument without a position has no trades.
C16_QuantityIsNetOfTrades ==
    \A ins \in Instruments :
        SumQuantity(TradesOf(ins, "BUY")) - SumQuantity(TradesOf(ins, "SELL"))
            = IF ins \in DOMAIN bt_positions
              THEN bt_positions[ins].quantity ELSE 0

\* C16 witness: an instrument bought once and sold twice, now short
C16_Witness ==
    \E ins \in Instruments :
        /\ Len(TradesOf(ins, "BUY")) = 1
        /\ Len(TradesOf(ins, "SELL")) = 2
        /\ trades[1].action = "SELL"
        /\ bt_positions[ins].quantity < 0

\* C17: a SELL of quantity q at price p on a long position of quantity
\* Q > 0 with q > Q adds (p - avg_price) * Q to realized_pnl, leaves
\* quantity Q - q < 0 and sets avg_price to p.
C17_SellThroughFlat ==
    [][ Traded =>
          LET ins == NewTrade.instrument
          IN  (/\ NewTrade.action = "SELL"
               /\ ins \in DOMAIN bt_positions
               /\ bt_positions[ins].quantity > 0
               /\ NewTrade.quantity > bt_positions[ins].quantity)
              => LET A == bt_positions[ins].avg_price
                     Q == bt_positions[ins].quantity
                 IN  /\ bt_positions'[ins].realized_pnl
                          = FracAdd(bt_positions[ins].realized_pnl,
                                    Frac((NewTrade.price * A[2] - A[1]) * Q,
                                         A[2]))
                     /\ bt_positions'[ins].quantity = Q - NewTrade.quantity
                     /\ bt_positions'[ins].quantity < 0
                     /\ bt_positions'[ins].avg_price
                          = <<NewTrade.price, 1>> ]_vars

\* C17 witness: the last trade sold 10 at a price other than the one at
\* which the only 5 held had been bought
C17_Witness ==
    /\ Len(trades) >= 2
    /\ LastTrade.action = "SELL"
    /\ LET ins == LastTrade.instrument
           buys == TradesOf(ins, "BUY")
       IN  /\ TradesOf(ins, "SELL") = <<LastTrade>>
           /\ Len(buys) = 1
           /\ buys[1].quantity < LastTrade.quantity
           /\ buys[1].price # LastTrade.price
           /\ bt_positions[ins].quantity < 0
           /\ bt_positions[ins].realized_pnl[1] # 0
           /\ bt_positions[ins].avg_price = <<LastTrade.price, 1>>

\* unrealized P&L of a position as documented:
\* (last price - avg_price) * quantity when quantity and avg_price are
\* non-zero, 0 otherwise
DocumentedUnrealized(position) ==
    IF position.quantity # 0 /\ position.avg_price # <<0, 1>>
    THEN Frac((position.current_price * position.avg_price[2]
                  - position.avg_price[1]) * position.quantity,
              position.avg_price[2])
    ELSE <<0, 1>>

RECURSIVE SumOver(_, _)
SumOver(f, S) ==
    IF S = {} THEN <<0, 1>>
    ELSE LET x == CHOOSE y \in S : TRUE
         IN  FracAdd(f[x], SumOver(f, S \ {x}))

\* the scenario BUY 10 @ 2345.50 then SELL 10 @ 2350.00 on one instrument
ScenarioTrades ==
    << [instrument |-> "NIFTY", action |-> "BUY", quantity |-> 10,
        price |-> 4691],
       [instrument |-> "NIFTY", action |-> "SELL", quantity |-> 10,
        price |-> 4700] >>

\* the documented equity: initial_capital plus the realized_pnl of all
\* instruments plus the unrealized P&L unreal[ins] of each
EquityFrom(unreal) ==
    FracAdd(<<initial_capital, 1>>,
        FracAdd(SumOver([ins \in DOMAIN bt_positions |->
                            bt_positions[ins].realized_pnl],
                        DOMAIN bt_positions),
                SumOver(unreal, DOMAIN bt_positions)))

\* after the scenario, with initial_capital 100000: realized_pnl 45.00
\* (90 half units), quantity 0, equity 100045.00
ScenarioOutcome ==
    trades = ScenarioTrades
        => /\ bt_positions["NIFTY"].realized_pnl = <<90, 1>>
           /\ bt_positions["NIFTY"].quantity = 0
           /\ current_equity = <<initial_capital + 90, 1>>

\* C18 (as claimed): the equity of the curve is initial_capital plus the
\* realized_pnl of all instruments plus their unrealized P&L, which is
\* (last price - avg_price) * quantity when quantity and avg_price are
\* non-zero and 0 otherwise; the scenario BUY 10 @ 2345.50, SELL 10 @
\* 2350.00 ends with realized_pnl 45.00, equity 100045.00, quantity 0.
C18_EquityAsClaimed ==
    /\ current_equity
         = EquityFrom([ins \in DOMAIN bt_positions |->
                          DocumentedUnrealized(bt_positions[ins])])
    /\ ScenarioOutcome

\* C18 (amended): the same with the unrealized P&L of a position counted
\* only when its last price is non-zero as well.
C18_EquityIdentity ==
    /\ current_equity
         = EquityFrom([ins \in DOMAIN bt_positions |->
                          IF bt_positions[ins].current_price # 0
                          THEN DocumentedUnrealized(bt_positions[ins])
                          ELSE <<0, 1>>])
    /\ ScenarioOutcome

\* C18 witness: the scenario has been played and the instrument marked
\* at a later tick
C18_Witness ==
    /\ trades = ScenarioTrades
    /\ bt_positions["NIFTY"].current_price = 4691
    /\ current_equity = <<200090, 1>>

\* C21: in every tick of a backtest the strategy's on_tick is called
\* before generate_signals.
C21_OnTickBeforeSignals ==
    strategy_calls # <<>>
        => \E i, j \in 1..Len(strategy_calls) :
              /\ i < j
              /\ strategy_calls[i] = "on_tick"
              /\ strategy_calls[j] = "generate_signals"

\* the order dict RiskManager.validate_order would be shown for a trade
OrderOfTrade(trade) ==
    [instrument |-> trade.instrument, transaction_type |-> trade.action,
     quantity |-> trade.quantity]

\* C22: a step of the backtest that records a trade has had the signal
\* approved by validate_order, and validate_order allows it: a signal it
\* would deny changes neither the positions nor the trade list.
C22_TradesAreValidated ==
    [][ Traded => /\ rlast'.op = "validate_order"
                  /\ rlast'.ok
                  /\ ValidateResult(OrderOfTrade(NewTrade))[1] ]_vars

(***************************************************************************)
(* Fills and counters of the order ledger (specification Spec).            *)
(***************************************************************************)
\* the signed quantity of an order dict
SignedQuantity(o) ==
    IF o.transaction_type = "BUY" THEN o.quantity ELSE -o.quantity

\* the quantity a position book holds of an instrument
BookQuantity(ins) ==
    IF ins \in DOMAIN bt_positions THEN bt_positions[ins].quantity ELSE 0

\* C19: in the step in which the status of a held order becomes COMPLETE,
\* the position of the order's instrument moves by the order's signed
\* quantity.
C19_FillUpdatesPosition ==
    [][\A o \in Held :
         (objs[o].status # "COMPLETE" /\ objs'[o].status = "COMPLETE")
            => \/ PositionQuantity(objs[o].instrument)'
                    = PositionQuantity(objs[o].instrument)
                        + SignedQuantity(objs[o])
               \/ BookQuantity(objs[o].instrument)'
                    = BookQuantity(objs[o].instrument)
                        + SignedQuantity(objs[o])]_vars

\* the held orders in a status
HeldIn(status) == { o \in Held : objs[o].status = status }

\* C20: total_orders is the number of orders in the ledger, filled_orders
\* the number of them in COMPLETE, rejected_orders the number in REJECTED,
\* and the fill rate filled / total is within [0, 1].
C20_CountersMatchLedger ==
    /\ total_orders = Len(orders)
    /\ filled_orders = Cardinality(HeldIn("COMPLETE"))
    /\ rejected_orders = Cardinality(HeldIn("REJECTED"))
    /\ fill_rate # <<>>
         => (0 <= fill_rate[1] /\ fill_rate[1] <= fill_rate[2])

(***************************************************************************)
(* Properties of the market making strategy (specification SpecMM).        *)
(***************************************************************************)
\* the step is an on_tick call
TickStep == mm_last'.op = "on_tick" /\ mm_last' # mm_last

\* the step posts a new bid / ask of the instrument
NewBid(ins) ==
    Get(active_bids', ins) # None /\ Get(active_bids', ins) # Get(active_bids, ins)
NewAsk(ins) ==
    Get(active_asks', ins) # None /\ Get(active_asks', ins) # Get(active_asks, ins)

\* C23: an on_tick whose mid price is more than the threshold away from
\* the mid at which the instrument was last quoted cancels the resting
\* quotes of the instrument and goes on to re-quote, however the move
\* is spread over the ticks since.
C23_RequoteOnMoveFromQuotedMid ==
    [][ TickStep =>
          LET ins == mm_last'.instrument
          IN  (/\ Get(quoted_mid, ins) # None
               /\ MovedBeyondThreshold(mm_last'.mid_price,
                                       Get(quoted_mid, ins)))
              => /\ Get(active_bids', ins) = None
                 /\ Get(active_asks', ins) = None
                 /\ \E f \in BagToSet(mm_inflight') :
                       /\ f.instrument = ins
                       /\ f.mid_price = mm_last'.mid_price
                       /\ CopiesIn(f, mm_inflight')
                            > CopiesIn(f, mm_inflight) ]_vars

\* C24: a bid is posted only if position + order_quantity, and an ask
\* only if position - order_quantity, is within position_limit in
\* absolute value.
C24_QuoteKeepsPositionLimit ==
    [][ \A ins \in MMInstruments :
          /\ NewBid(ins)
                => Abs(MMPosition(ins) + order_quantity) <= position_limit
          /\ NewAsk(ins)
                => Abs(MMPosition(ins) - order_quantity) <= position_limit
      ]_vars

\* the fraction x rounded to an integer, an exact half upwards
RoundHalfUp(x) ==
    IF 2 * (x[1] % x[2]) >= x[2] THEN (x[1] \div x[2]) + 1
    ELSE x[1] \div x[2]

\* mid -/+ mid * spread_pct to the nearest multiple of the increment,
\* halves up
QuotedAt(mid_price, side) ==
    FracMul(<<RoundHalfUp(FracDiv(
                  FracMul(mid_price,
                          FracAdd(<<1, 1>>,
                                  IF side = "bid"
                                  THEN FracNeg(spread_percentage)
                                  ELSE spread_percentage)),
                  min_price_increment)), 1>>,
            min_price_increment)

\* C25: a posted bid is mid - mid * spread_pct and a posted ask
\* mid + mid * spread_pct, rounded to the nearest multiple of the price
\* increment with exact halves rounded up; for mid 22428.35 (spread_pct
\* 0.0005, increment 0.05) the bid is 22417.15 and the ask 22439.55.
C25_QuotesRoundHalfUp ==
    [][ \A ins \in MMInstruments :
          /\ NewBid(ins)
                => /\ active_bids'[ins] = QuotedAt(mm_last'.mid_price, "bid")
                   /\ mm_last'.mid_price = <<448567, 20>>
                         => active_bids'[ins] = <<448343, 20>>
          /\ NewAsk(ins)
                => /\ active_asks'[ins] = QuotedAt(mm_last'.mid_price, "ask")
                   /\ mm_last'.mid_price = <<448567, 20>>
                         => active_asks'[ins] = <<448791, 20>>
      ]_vars

(***************************************************************************)
(* Momentum strategy: signals, exits and histories.                        *)
(***************************************************************************)
\* the last call was a strategy round
AfterRound == mo_last.op = "run_strategies"

\* the momentum signal of an instrument as documented, over integers:
\* the averages compared by cross-multiplying the window sums
DocumentedSignal(ins) ==
    LET short_sum == SumSeq(LastN(price_history[ins], ma_short_period))
        long_sum == SumSeq(LastN(price_history[ins], ma_long_period))
        volume_sum == SumSeq(LastN(volume_history[ins], ma_short_period))
        current_volume == volume_history[ins][Len(volume_history[ins])]
        volume_ok == current_volume * ma_short_period * volume_threshold[2]
                        > volume_sum * volume_threshold[1]
    IN  CASE volume_ok /\ short_sum * ma_long_period > long_sum * ma_short_period
               -> "BUY"
          [] volume_ok /\ short_sum * ma_long_period < long_sum * ma_short_period
               -> "SELL"
          [] OTHER -> "NEUTRAL"

\* C26: for an instrument with at least ma_long_period ticks on record the
\* momentum signal of a strategy round is BUY exactly when the short
\* average is above the long one and the current volume is above the
\* average volume of the short window times volume_threshold, SELL exactly
\* when the short average is below the long one under the same volume
\* condition, and NEUTRAL otherwise, equal averages included.
C26_MomentumSignal ==
    AfterRound =>
        \A k \in 1..Len(MomentumInstruments) :
            Len(price_history[MomentumInstruments[k]]) >= ma_long_period
                => mo_last.momentum[k] = DocumentedSignal(MomentumInstruments[k])

\* a round that found the averages equal under a confirming volume, and
\* answered NEUTRAL
C26_Witness ==
    /\ AfterRound
    /\ mo_last.momentum[1] = "NEUTRAL"
    /\ LastN(price_history["NIFTY"], ma_long_period) = <<200, 200, 200>>
    /\ LastN(volume_history["NIFTY"], ma_short_period) = <<1, 4>>

\* the step is a strategy round of the momentum strategy
RoundStep == mo_last'.op = "run_strategies"

\* action, quantity and purpose of the signals of one instrument, in the
\* order of the list
SignalsOf(ins, signals) ==
    LET own == SelectSeq(signals, LAMBDA sig : sig.instrument = ins)
    IN  [n \in 1..Len(own) |->
            <<own[n].action, own[n].quantity, own[n].reason>>]

\* the signals documented for a momentum signal and a position
DocumentedSignals(signal, position) ==
    CASE signal = "BUY" /\ position < 0
           -> << <<"BUY", -position, "close_short">>,
                 <<"BUY", position_size, "enter_long">> >>
      [] signal = "BUY" /\ position = 0
           -> << <<"BUY", position_size, "enter_long">> >>
      [] signal = "SELL" /\ position > 0
           -> << <<"SELL", position, "close_long">>,
                 <<"SELL", position_size, "enter_short">> >>
      [] signal = "SELL" /\ position = 0
           -> << <<"SELL", position_size, "enter_short">> >>
      [] OTHER -> <<>>

\* C27: on a BUY momentum signal generate_signals emits for a short or flat
\* instrument first a BUY that closes the whole short quantity (only when
\* short) and then a BUY entry of position_size, and nothing for an
\* instrument already long; on SELL it emits the mirror image; the
\* position is the one held when the round begins.
C27_CloseThenEnter ==
    [][RoundStep =>
        \A k \in 1..Len(MomentumInstruments) :
            mo_last'.momentum[k] # ""
                => SignalsOf(MomentumInstruments[k], mo_last'.signals)
                     = DocumentedSignals(mo_last'.momentum[k],
                           strategy_positions[MomentumInstruments[k]])]_vars

\* a round that met a BUY while short: it emitted the close of the short
\* and then the entry, and left the instrument long
C27_Witness ==
    /\ AfterRound
    /\ SignalsOf("NIFTY", mo_last.signals)
          = << <<"BUY", position_size, "close_short">>,
               <<"BUY", position_size, "enter_long">> >>
    /\ strategy_positions["NIFTY"] = position_size

\* the step is a tick processed by the momentum strategy
MomentumTickStep == mo_last'.op = "on_tick"

\* the return of a position from its entry price, sign-adjusted, is at
\* least take_profit_pct or at most -stop_loss_pct (entry price above 0)
ReturnAtThreshold(position, entry_price, price) ==
    LET gain == IF position > 0 THEN price - entry_price
                ELSE entry_price - price
    IN  \/ gain * take_profit_pct[2] >= take_profit_pct[1] * entry_price
        \/ gain * stop_loss_pct[2] <= -(stop_loss_pct[1] * entry_price)

\* C28: on every tick the active momentum strategy processes, an open
\* position whose sign-adjusted return from its recorded entry price is at
\* least take_profit_pct or at most -stop_loss_pct is closed, i.e. the
\* position becomes 0 and the entry price is removed, and a position whose
\* return is strictly between the thresholds stays as it is with its entry
\* price.
C28_ExitAtThresholds ==
    [][MomentumTickStep =>
        LET ins == mo_last'.tick.instrument
            position == strategy_positions[ins]
        IN  (position # 0 /\ ins \in DOMAIN entry_prices)
              => IF ReturnAtThreshold(position, entry_prices[ins],
                                      mo_last'.tick.ltp)
                 THEN /\ strategy_positions'[ins] = 0
                      /\ ins \notin DOMAIN entry_prices'
                 ELSE /\ strategy_positions'[ins] = position
                      /\ ins \in DOMAIN entry_prices'
                      /\ entry_prices'[ins] = entry_prices[ins]]_vars

\* a tick at 201 closed the position: a long entered at 200, whose return
\* is exactly take_profit_pct (a short would be kept below 202)
C28_Witness ==
    /\ mo_last.op = "on_tick"
    /\ mo_last.closed
    /\ mo_last.tick.instrument = "NIFTY"
    /\ mo_last.tick.ltp = 201
    /\ strategy_positions["NIFTY"] = 0
    /\ "NIFTY" \notin DOMAIN entry_prices

\* C29: after every tick the price history and the volume history of each
\* instrument have the same length, at most max(ma_short_period,
\* ma_long_period) + 10, and hold the most recent ticks in arrival order:
\* the histories of the tick's instrument are the old ones with the tick
\* appended, cut to their last max_history entries, and the other
\* instrument's are untouched.
C29_BoundedHistory ==
    [][MomentumTickStep =>
        LET tick == mo_last'.tick
        IN  \A ins \in Instruments :
              /\ Len(price_history'[ins]) = Len(volume_history'[ins])
              /\ Len(price_history'[ins]) <= max_history
              /\ price_history'[ins] =
                    IF ins = tick.instrument
                    THEN LastN(Append(price_history[ins], tick.ltp),
                               max_history)
                    ELSE price_history[ins]
              /\ volume_history'[ins] =
                    IF ins = tick.instrument
                    THEN LastN(Append(volume_history[ins], tick.volume),
                               max_history)
                    ELSE volume_history[ins]]_vars

\* full histories, the newest tick a quiet 199 behind an active 200
C29_Witness ==
    /\ Len(price_history["NIFTY"]) = max_history
    /\ Len(volume_history["NIFTY"]) = max_history
    /\ LastN(price_history["NIFTY"], 2) = <<200, 199>>
    /\ LastN(volume_history["NIFTY"], 2) = <<4, 1>>
    /\ mo_last.op = "on_tick"
    /\ mo_last.tick.ltp = 199

\* C30: a strategy round emits no signal for an instrument with fewer than
\* ma_long_period ticks on record and raises nothing, and it emits the
\* signals of every instrument that has enough history, wherever the
\* instrument without history stands in the list.
C30_ShortHistorySkipped ==
    [][RoundStep =>
        /\ mo_last'.raised = ""
        /\ \A ins \in Instruments :
              SignalsOf(ins, mo_last'.signals) =
                IF Len(price_history[ins]) < ma_long_period THEN <<>>
                ELSE DocumentedSignals(DocumentedSignal(ins),
                                       strategy_positions[ins])]_vars

\* a round with too few ticks of the first instrument on record that
\* skipped it and emitted an entry for the second
C30_Witness ==
    /\ AfterRound
    /\ Len(price_history["NIFTY"]) \in 1..(ma_long_period - 1)
    /\ SignalsOf("NIFTY", mo_last.signals) = <<>>
    /\ SignalsOf("INFY", mo_last.signals)
          = << <<"BUY", position_size, "enter_long">> >>
    /\ mo_last.raised = ""

(***************************************************************************)
(* Backtest: determinism, replay order and metrics.                        *)
(***************************************************************************)
\* C31: two backtests over the same candles replay the same ticks: the
\* synthetic ticks two Backtest objects prepare from equal candles of an
\* instrument are equal in prices, volumes and timestamps (and with them
\* the trades and the equity curve that the replay derives from them).
C31_SameCandlesSameTicks ==
    \A ins \in DOMAIN tick_frames[1] \cap DOMAIN tick_frames[2] :
        prepared_from[1][ins] = prepared_from[2][ins]
            => tick_frames[1][ins] = tick_frames[2][ins]

\* C32: run replays the merged ticks of all instruments in non-decreasing
\* timestamp order with ticks of equal timestamp in the order they had in
\* the merged frames, and appends one point to the equity curve per tick
\* processed, so that the curve has one point more than ticks replayed.
C32_StableOrderOnePointPerTick ==
    equity_curve # <<>> =>
        /\ all_ticks \in SortedByTimestamp_Stable(merged)
        /\ Len(equity_curve) = replayed + 1
        /\ \A k \in 1..replayed :
              equity_curve[k + 1].timestamp = all_ticks[k].timestamp

\* the position book after the first n recorded trades
RECURSIVE BookAfter(_)
BookAfter(n) ==
    IF n = 0 THEN <<>>
    ELSE Backtest_update_position(BookAfter(n - 1), trades[n])

\* the P&L the n-th recorded trade realized
RealizedBy(n) ==
    LET ins == trades[n].instrument
        before == IF ins \in DOMAIN BookAfter(n - 1)
                  THEN BookAfter(n - 1)[ins].realized_pnl ELSE <<0, 1>>
    IN  FracAdd(BookAfter(n)[ins].realized_pnl, FracTimes(before, -1))

\* C33: the win rate of the backtest is the fraction of the recorded
\* trades that realized a positive P&L; with a long closed above its
\* average cost among the trades it is above 0.
C33_WinRateCountsWinners ==
    Len(trades) > 0 =>
        win_rate =
            Frac(Cardinality({ n \in 1..Len(trades) : RealizedBy(n)[1] > 0 }),
                 Len(trades))

\* C34: a signal that lacks its instrument, its side or its quantity is
\* rejected by validation and becomes neither a trade nor a position:
\* no recorded trade is without instrument or side, and no position is
\* kept under a missing instrument.
C34_MalformedNeverTraded ==
    /\ \A k \in 1..Len(trades) :
          trades[k].instrument # NoneName /\ trades[k].action # NoneName
    /\ NoneName \notin DOMAIN bt_positions

\* C35: a fill with a quantity of 0 or below is aborted: the step that
\* takes such a trade leaves quantity, avg_price and realized_pnl of the
\* instrument's position as they were (a position not yet kept counting
\* as flat, without cost basis and P&L).
C35_NonPositiveFillAborted ==
    [][(Traded /\ NewTrade.quantity <= 0) =>
        LET ins == NewTrade.instrument
            before == IF ins \in DOMAIN bt_positions THEN bt_positions[ins]
                      ELSE NewBookPosition(NewTrade.price)
        IN  /\ bt_positions'[ins].quantity = before.quantity
            /\ bt_positions'[ins].avg_price = before.avg_price
            /\ bt_positions'[ins].realized_pnl = before.realized_pnl]_vars

(***************************************************************************)
(* Market making: stop.                                                    *)
(***************************************************************************)
\* C36: from the end of stop() to the next start() a market making
\* strategy tracks no resting quote, active_bids and active_asks holding
\* no order for any instrument, and posts none, also when an on_tick was
\* suspended between its cancel and its re-quote while stop() ran.
C36_StoppedHasNoQuotes ==
    ~mm_active =>
        \A ins \in MMInstruments :
            Get(active_bids, ins) = None /\ Get(active_asks, ins) = None

(***************************************************************************)
(* Cost basis of the backtest position book.                               *)
(***************************************************************************)
\* C37: every position of the backtest with a quantity other than 0 has
\* an avg_price other than 0, a short opened by a SELL on a flat or new
\* instrument included, so that calculate_equity counts its unrealized
\* P&L at every mark.
C37_OpenPositionHasCostBasis ==
    \A ins \in DOMAIN bt_positions :
        bt_positions[ins].quantity # 0 => bt_positions[ins].avg_price[1] # 0

(***************************************************************************)
(* The risk manager under its public update operations.                    *)
(***************************************************************************)
\* C38: update_position and update_order never set the avg_price of a
\* position, which stays 0; so daily_pnl, peak_pnl and current_drawdown
\* stay 0 in every state they reach, and check_all_risk_limits never
\* fails on the daily loss or on the drawdown.
C38_PublicUpdatesKeepPnlZero ==
    /\ \A ins \in DOMAIN positions : positions[ins].avg_price = 0
    /\ daily_pnl = 0
    /\ peak_pnl = 0
    /\ current_drawdown[1] = 0
    /\ rlast.op = "check_all_risk_limits"
          => rlast.reason \notin {"Daily loss limit exceeded",
                                  "Drawdown limit exceeded"}

\* check_all_risk_limits has run, and passed, on a long and a short
\* position that are marked at a price
C38_Witness ==
    /\ rlast.op = "check_all_risk_limits"
    /\ rlast.ok
    /\ DOMAIN positions = Instruments
    /\ positions["NIFTY"].quantity = 2 /\ positions["NIFTY"].last_price = 2
    /\ positions["INFY"].quantity = -1 /\ positions["INFY"].last_price = 1

(***************************************************************************)
(* Momentum strategy: positions and entry prices.                          *)
(***************************************************************************)
\* C39: whatever rounds of generate_signals and execute_signals and
\* whatever take-profit and stop-loss closes have happened, the position
\* of the momentum strategy in each instrument is -position_size, 0 or
\* +position_size.
C39_PositionIsOneUnit ==
    \A ins \in Instruments :
        strategy_positions[ins] \in {-position_size, 0, position_size}

\* a round that met a SELL while long: it closed the long and left the
\* instrument short by position_size
C39_Witness ==
    /\ AfterRound
    /\ SignalsOf("NIFTY", mo_last.signals)
          = << <<"SELL", position_size, "close_long">>,
               <<"SELL", position_size, "enter_short">> >>
    /\ strategy_positions["NIFTY"] = -position_size

\* C40: an instrument in which the momentum strategy holds a position has
\* an entry price on record, so on_tick computes the take-profit and
\* stop-loss return against a recorded entry price, never against the
\* default 0, and its division does not fail.
C40_OpenPositionHasEntryPrice ==
    /\ \A ins \in Instruments :
          strategy_positions[ins] # 0 => ins \in DOMAIN entry_prices
    /\ mo_last.raised = ""

\* a tick at 201 taken while short from 200: the return of -0.5% is
\* computed against the recorded entry price and the short is kept
C40_Witness ==
    /\ mo_last.op = "on_tick"
    /\ mo_last.tick.instrument = "NIFTY"
    /\ mo_last.tick.ltp = 201
    /\ ~mo_last.closed
    /\ strategy_positions["NIFTY"] = -position_size
    /\ "NIFTY" \in DOMAIN entry_prices
    /\ entry_prices["NIFTY"] = 200

=============================================================================
